---- MODULE Spec2Model ----
(***************************************************************************)
(* A model of the AIS decoder of squidpickles/ais: the NMEA sentence       *)
(* framer, the checksum, the fragment reassembler held by AisParser and    *)
(* the message layer (unarmor, dispatch, decoders) as far as parse uses it.*)
(* Bytes are naturals 0..255, byte strings are sequences of bytes.         *)
(***************************************************************************)
EXTENDS Integers, Sequences, FiniteSets, TLC

(***************************************************************************)
(* Bounds of the model.                                                    *)
(***************************************************************************)
\* the largest fragment count and fragment index a line of the model declares
MaxFrag == 4

(***************************************************************************)
(* Byte strings the grammar names.                                         *)
(***************************************************************************)
COMMA == <<44>>
STAR == <<42>>
BANG == <<33>>
DOLLAR == <<36>>
BACKSLASH == <<92>>

\* the ASCII digits, and the ASCII hex digits
Digits == 48..57

HexDigits == Digits \cup (65..70) \cup (97..102)

\* char::to_digit(16)
HexVal(b) == IF b \in Digits THEN b - 48 ELSE IF b >= 97 THEN b - 87 ELSE b - 55

Drop(s, n) == SubSeq(s, n + 1, Len(s))

Take(s, n) == SubSeq(s, 1, n)

\* the position of the first occurrence of byte b in s, 0 when there is none
RECURSIVE IndexFrom(_, _, _)
IndexFrom(s, b, i) ==
    IF i > Len(s) THEN 0
    ELSE IF s[i] = b THEN i
    ELSE IndexFrom(s, b, i + 1)

IndexOf(s, b) == IndexFrom(s, b, 1)

\* the length of the longest prefix of s whose bytes are all in the set S
RECURSIVE PrefixLen(_, _, _)
PrefixLen(s, S, i) ==
    IF i > Len(s) THEN Len(s)
    ELSE IF s[i] \in S THEN PrefixLen(s, S, i + 1)
    ELSE i - 1

\* the bitwise exclusive or of two bytes
RECURSIVE XorBits(_, _, _)
XorBits(a, b, n) ==
    IF n = 0 THEN 0
    ELSE ((a + b) % 2) + 2 * XorBits(a \div 2, b \div 2, n - 1)

Xor8(a, b) == XorBits(a, b, 8)

(***************************************************************************)
(* nom combinators: each returns [ok, rest, val].                          *)
(***************************************************************************)
Fail == [ok |-> FALSE]

Done(rest, val) == [ok |-> TRUE, rest |-> rest, val |-> val]

\* the ? operator on a parser result: the rest of the function, K, runs on a
\* success, and a failure is returned as it is
Try(r, K(_)) == IF r.ok THEN K(r) ELSE r

\* a let binding: K runs on the value
Let(v, K(_)) == K(v)

\* nom::combinator::opt of a parser result on input
opt(r, input) == IF r.ok THEN Done(r.rest, <<r.val>>) ELSE Done(input, <<>>)

\* nom::bytes::complete::tag
tag(t, input) ==
    IF Len(input) >= Len(t) /\ Take(input, Len(t)) = t
    THEN Done(Drop(input, Len(t)), t)
    ELSE Fail

\* nom::bytes::complete::take
take(n, input) ==
    IF Len(input) >= n THEN Done(Drop(input, n), Take(input, n)) ELSE Fail

\* nom::bytes::complete::take_until, for a one-byte pattern
take_until(t, input) ==
    LET i == IndexOf(input, t[1])
    IN IF i = 0 THEN Fail ELSE Done(Drop(input, i - 1), Take(input, i - 1))

\* nom::character::complete::digit1
digit1(input) ==
    LET n == PrefixLen(input, Digits, 1)
    IN IF n = 0 THEN Fail ELSE Done(Drop(input, n), Take(input, n))

\* the value of a run of ASCII digits
RECURSIVE DecValue(_, _)
DecValue(s, acc) ==
    IF s = <<>> THEN acc ELSE DecValue(Tail(s), 10 * acc + (Head(s) - 48))

\* the value of a run of hex digits
RECURSIVE HexValue(_, _)
HexValue(s, acc) ==
    IF s = <<>> THEN acc ELSE HexValue(Tail(s), 16 * acc + HexVal(Head(s)))

\* nom::number::complete::hex_u32: at most 8 hex digits are consumed
hex_u32(input) ==
    LET n == PrefixLen(input, HexDigits, 1)
        m == IF n <= 8 THEN n ELSE 8
    IN IF n = 0 THEN Fail ELSE Done(Drop(input, m), HexValue(Take(input, m), 0))

(***************************************************************************)
(* The sentence layer (sentence.rs). Option<T> is <<>> for None and <<v>>  *)
(* for Some(v).                                                            *)
(***************************************************************************)
None == <<>>

Some(v) == <<v>>

\* impl From<&[u8]> for AisReportType: "VDM", "VDO"
AisReportType_from(typ) ==
    IF typ = <<86, 68, 77>> THEN "VDM"
    ELSE IF typ = <<86, 68, 79>> THEN "VDO"
    ELSE "Unknown"

\* impl From<&[u8]> for TalkerId: AB AD AI AN AR AS AT AX BS SA
TalkerId_from(talker_id) ==
    CASE talker_id = <<65, 66>> -> "AB"
      [] talker_id = <<65, 68>> -> "AD"
      [] talker_id = <<65, 73>> -> "AI"
      [] talker_id = <<65, 78>> -> "AN"
      [] talker_id = <<65, 82>> -> "AR"
      [] talker_id = <<65, 83>> -> "AS"
      [] talker_id = <<65, 84>> -> "AT"
      [] talker_id = <<65, 88>> -> "AX"
      [] talker_id = <<66, 83>> -> "BS"
      [] talker_id = <<83, 65>> -> "SA"
      [] OTHER -> "Unknown"

\* parse_numeric_string: digit1, then str::from_utf8 (digits are always UTF-8)
parse_numeric_string(input) == digit1(input)

\* parse_u8_digit: the digits as a u8; u8::from_str fails above 255
parse_u8_digit(input) ==
    LET r == parse_numeric_string(input)
    IN IF ~r.ok THEN Fail
       ELSE IF DecValue(r.val, 0) > 255 THEN Fail
       ELSE Done(r.rest, DecValue(r.val, 0))

\* message_type that takes the six bits the first byte is armor for
message_type_unarmored(input) ==
    IF input = <<>> THEN Fail
    ELSE Done(Tail(input),
              IF input[1] - 48 > 40 THEN input[1] - 56 ELSE input[1] - 48)

\* messages::message_type on a byte string: the top six bits of the first byte
message_type(input) ==
    IF input = <<>> THEN Fail ELSE Done(Tail(input), input[1] \div 4)

\* AisSentence::has_more
has_more(s) == s.fragment_number < s.num_fragments

\* is_fragment that takes every sentence for a fragment
is_fragment_always(s) == s.num_fragments >= 0

\* AisSentence::is_fragment
is_fragment(s) == s.num_fragments # 1

\* the bound of verify(parse_u8_digit, |val| *val < 6)
FillBitLimit == 6

\* verify(parse_u8_digit, |val| *val < 6) on the result of parse_u8_digit
verify_fill(r) == IF r.ok /\ r.val < FillBitLimit THEN r ELSE Fail

\* parse_ais_sentence: the AIS portion of a sentence, up to the fill-bit count
parse_ais_sentence(input) ==
    Try(take(2, input), LAMBDA talker_id :
    Try(take(3, talker_id.rest), LAMBDA report_type :
    Try(tag(COMMA, report_type.rest), LAMBDA c1 :
    Try(parse_u8_digit(c1.rest), LAMBDA num_fragments :
    Try(tag(COMMA, num_fragments.rest), LAMBDA c2 :
    Try(parse_u8_digit(c2.rest), LAMBDA fragment_no :
    Try(tag(COMMA, fragment_no.rest), LAMBDA c3 :
    Try(opt(parse_u8_digit(c3.rest), c3.rest), LAMBDA msg_id :
    Try(tag(COMMA, msg_id.rest), LAMBDA c4 :
    Try(take_until(COMMA, c4.rest), LAMBDA channel_bytes :
    Try(tag(COMMA, channel_bytes.rest), LAMBDA c5 :
    Try(take_until(COMMA, c5.rest), LAMBDA ais_data :
    Try(tag(COMMA, ais_data.rest), LAMBDA c6 :
    Try(verify_fill(parse_u8_digit(c6.rest)), LAMBDA fill :
    Try(message_type(ais_data.val), LAMBDA mtype :
        Done(fill.rest,
             [talker_id |-> TalkerId_from(talker_id.val),
              report_type |-> AisReportType_from(report_type.val),
              num_fragments |-> num_fragments.val,
              fragment_number |-> fragment_no.val,
              message_id |-> msg_id.val,
              \* opt(anychar) on the channel bytes
              channel |-> IF channel_bytes.val = <<>> THEN None
                          ELSE Some(channel_bytes.val[1]),
              data |-> ais_data.val,
              fill_bit_count |-> fill.val,
              message_type |-> mtype.val,
              message |-> None]))))))))))))))))

\* opt(delimited(tag("\\"), take_until("\\"), tag("\\"))): the input after
\* a tag block, or the input itself
tag_block(input) ==
    opt(Try(tag(BACKSLASH, input), LAMBDA t1 :
        Try(take_until(BACKSLASH, t1.rest), LAMBDA t2 :
        tag(BACKSLASH, t2.rest))), input)

\* alt((tag("!"), tag("$")))
start_char(input) ==
    IF tag(BANG, input).ok THEN tag(BANG, input) ELSE tag(DOLLAR, input)

\* verify(hex_u32, |val| val <= &0xff) on the result of hex_u32
verify_checksum(r) == IF r.ok /\ r.val <= 255 THEN r ELSE Fail

\* parse_nmea_sentence: [ok, rest, raw, msg, checksum]
parse_nmea_sentence(input) ==
    Try(tag_block(input), LAMBDA block :
    Try(start_char(block.rest), LAMBDA start :
    \* peek(take_until("*")) consumes nothing
    Try(take_until(STAR, start.rest), LAMBDA raw :
    Try(parse_ais_sentence(start.rest), LAMBDA msg :
    Try(tag(STAR, msg.rest), LAMBDA star :
    Try(verify_checksum(hex_u32(star.rest)), LAMBDA checksum :
        [ok |-> TRUE, rest |-> checksum.rest, raw |-> raw.val,
         msg |-> msg.val, checksum |-> checksum.val]))))))

\* sentence.iter().fold(0u8, |acc, &item| acc ^ item)
RECURSIVE fold_xor(_, _)
fold_xor(sentence, acc) ==
    IF sentence = <<>> THEN acc
    ELSE fold_xor(Tail(sentence), Xor8(acc, Head(sentence)))

\* check_checksum with the fold started on the second byte
check_checksum_skip_first(sentence, expected_checksum) ==
    LET received_checksum == fold_xor(Tail(sentence), 0)
    IN IF expected_checksum # received_checksum
       THEN [ok |-> FALSE,
             err |-> [kind |-> "Checksum", expected |-> expected_checksum,
                      found |-> received_checksum]]
       ELSE [ok |-> TRUE, val |-> received_checksum]

\* AisParser::check_checksum: [ok, received] or the Error::Checksum value
check_checksum(sentence, expected_checksum) ==
    LET received_checksum == fold_xor(sentence, 0)
    IN IF expected_checksum # received_checksum
       THEN [ok |-> FALSE,
             err |-> [kind |-> "Checksum", expected |-> expected_checksum,
                      found |-> received_checksum]]
       ELSE [ok |-> TRUE, val |-> received_checksum]

(***************************************************************************)
(* The message layer (messages/mod.rs, messages/parsers.rs).  u8 shifts    *)
(* and masks keep their width.                                             *)
(***************************************************************************)
Pow2(n) == 2 ^ n

\* x << n on a u8
Shl8(x, n) == (x * Pow2(n)) % 256

\* x >> n on a u8
Shr8(x, n) == x \div Pow2(n)

RECURSIVE OrBits(_, _, _)
OrBits(a, b, n) ==
    IF n = 0 THEN 0
    ELSE (IF (a % 2) + (b % 2) > 0 THEN 1 ELSE 0)
         + 2 * OrBits(a \div 2, b \div 2, n - 1)

\* a | b on u8
Or8(a, b) == OrBits(a, b, 8)

RECURSIVE AndBits(_, _, _)
AndBits(a, b, n) ==
    IF n = 0 THEN 0
    ELSE ((a % 2) * (b % 2)) + 2 * AndBits(a \div 2, b \div 2, n - 1)

\* a & b on u8
And8(a, b) == AndBits(a, b, 8)

\* the message of an Error::Nmea
Nmea(msg) == [kind |-> "Nmea", msg |-> msg]

\* the 6-bit value of an armored byte, in the two ranges of unarmor's match
ArmorValid(byte) == (byte >= 48 /\ byte <= 87) \/ (byte >= 96 /\ byte <= 119)

\* the armoring with one offset for both ranges
ArmorValue_one_offset(byte) == byte - 48

ArmorValue(byte) == IF byte <= 87 THEN byte - 48 ELSE byte - 56

\* the loop of unarmor: data[i..] is packed into output from bit `offset` on
RECURSIVE unarmor_loop(_, _, _, _)
unarmor_loop(input, i, offset, output) ==
    IF i > Len(input) THEN [ok |-> TRUE, val |-> output]
    ELSE IF ~ArmorValid(input[i])
         THEN [ok |-> FALSE, err |-> Nmea("Value out of range")]
    ELSE LET unarmored == Shl8(ArmorValue(input[i]), 2)
             offset_byte == offset \div 8
             offset_bit == offset % 8
             o1 == [output EXCEPT ![offset_byte + 1] =
                        Or8(@, Shr8(unarmored, offset_bit))]
             o2 == IF offset_bit > 2
                   THEN [o1 EXCEPT ![offset_byte + 2] =
                             Or8(@, Shl8(unarmored, 8 - offset_bit))]
                   ELSE o1
         IN unarmor_loop(input, i + 1, offset + 6, o2)

\* the fill-bit mask on the final byte only
unarmor_mask_final_byte(output, bit_count, byte_count, fill_bits) ==
    LET bits_in_final_byte == IF bit_count % 8 = 0 THEN 8 ELSE bit_count % 8
        final_idx == byte_count - 1
        min_fb == IF fill_bits < bits_in_final_byte
                  THEN fill_bits ELSE bits_in_final_byte
        shift == (8 - bits_in_final_byte) + min_fb
        mask == IF shift <= 7 THEN Shl8(255, shift) ELSE 0
    IN [output EXCEPT ![final_idx + 1] = And8(@, mask)]

\* the fill-bit mask of unarmor, applied to the packed output
unarmor_mask(output, bit_count, byte_count, fill_bits) ==
    LET bits_in_final_byte == IF bit_count % 8 = 0 THEN 8 ELSE bit_count % 8
        final_idx == byte_count - 1
        min_fb == IF fill_bits < bits_in_final_byte
                  THEN fill_bits ELSE bits_in_final_byte
        shift == (8 - bits_in_final_byte) + min_fb
        mask == IF shift <= 7 THEN Shl8(255, shift) ELSE 0
        o1 == [output EXCEPT ![final_idx + 1] = And8(@, mask)]
    IN IF fill_bits > bits_in_final_byte
       THEN [o1 EXCEPT ![final_idx] =
                 And8(@, Shl8(255, fill_bits - bits_in_final_byte))]
       ELSE o1

\* messages::unarmor: [ok, val], [ok, err], or a panic (byte_count - 1 on an
\* empty buffer overflows, or wraps and indexes out of bounds)
unarmor(input, fill_bits) ==
    LET bit_count == Len(input) * 6
        byte_count == (bit_count \div 8) + (IF bit_count % 8 # 0 THEN 1 ELSE 0)
    IN Try(unarmor_loop(input, 1, 0, [k \in 1..byte_count |-> 0]),
           LAMBDA packed :
               IF fill_bits = 0 THEN packed
               ELSE IF byte_count = 0 THEN [ok |-> FALSE, panic |-> TRUE]
               ELSE [ok |-> TRUE,
                     val |-> unarmor_mask(packed.val, bit_count, byte_count,
                                          fill_bits)])

(***************************************************************************)
(* The bit reader: a cursor is [buf, pos], pos counting bits from the      *)
(* start of buf.                                                           *)
(***************************************************************************)
Cursor(buf) == [buf |-> buf, pos |-> 0]

\* parsers::remaining_bits
remaining_bits(c) == Len(c.buf) * 8 - c.pos

BitAt(buf, k) == (buf[(k \div 8) + 1] \div Pow2(7 - (k % 8))) % 2

RECURSIVE BitsValue(_, _, _, _)
BitsValue(buf, pos, n, acc) ==
    IF n = 0 THEN acc
    ELSE BitsValue(buf, pos + 1, n - 1, 2 * acc + BitAt(buf, pos))

\* nom::bits::complete::take: n bits, most significant first
take_bits(n, c) ==
    IF remaining_bits(c) < n THEN Fail
    ELSE Done([c EXCEPT !.pos = @ + n], BitsValue(c.buf, c.pos, n, 0))

\* parsers::sixbit_to_ascii
sixbit_to_ascii(d) == IF d <= 31 THEN d + 64 ELSE d

\* count(map_res(take_bits(6u8), sixbit_to_ascii), char_count)
RECURSIVE take_chars(_, _, _)
take_chars(c, k, acc) ==
    IF k = 0 THEN Done(c, acc)
    ELSE LET r == take_bits(6, c)
         IN IF ~r.ok THEN Fail
            ELSE take_chars(r.rest, k - 1, Append(acc, sixbit_to_ascii(r.val)))

\* str::trim_start: the only whitespace of the 6-bit alphabet is the space
RECURSIVE trim_start(_)
trim_start(t) ==
    IF t # <<>> /\ Head(t) = 32 THEN trim_start(Tail(t)) ELSE t

\* str::trim_end_matches(ch)
RECURSIVE trim_end_matches(_, _)
trim_end_matches(t, ch) ==
    IF t # <<>> /\ t[Len(t)] = ch
    THEN trim_end_matches(SubSeq(t, 1, Len(t) - 1), ch)
    ELSE t

\* str::trim_end
trim_end(t) == trim_end_matches(t, 32)

\* parsers::parse_6bit_ascii
parse_6bit_ascii(c, size) ==
    Try(take_chars(c, size \div 6, <<>>), LAMBDA r :
        Done(r.rest, trim_end(trim_end_matches(trim_start(r.val), 64))))

(***************************************************************************)
(* Decoders.  A decoder returns [ok, val] with val the typed record, or     *)
(* [ok |-> FALSE, err].  nom's bit-level Eof is an Error::Nmea.             *)
(***************************************************************************)
Eof == [ok |-> FALSE, err |-> Nmea("Eof")]

\* the ? operator on a bit-level result: a failure is nom's Eof
TryBits(r, K(_)) == IF r.ok THEN K(r) ELSE Eof

\* utc_date_inquiry::UtcDateInquiry::parse (type 10)
UtcDateInquiry_parse(input) ==
    TryBits(take_bits(6, Cursor(input)), LAMBDA mtype :
    TryBits(take_bits(2, mtype.rest), LAMBDA repeat_indicator :
    TryBits(take_bits(30, repeat_indicator.rest), LAMBDA mmsi :
    TryBits(take_bits(2, mmsi.rest), LAMBDA spare1 :
    TryBits(take_bits(30, spare1.rest), LAMBDA dest_mmsi :
    TryBits(take_bits(2, dest_mmsi.rest), LAMBDA spare2 :
        [ok |-> TRUE,
         val |-> [variant |-> "UtcDateInquiry",
                  message_type |-> mtype.val,
                  repeat_indicator |-> repeat_indicator.val,
                  mmsi |-> mmsi.val,
                  dest_mmsi |-> dest_mmsi.val]]))))))

\* safety_related_broadcast::SafetyRelatedBroadcastMessage::parse (type 14)
SafetyRelatedBroadcastMessage_parse(input) ==
    TryBits(take_bits(6, Cursor(input)), LAMBDA mtype :
    TryBits(take_bits(2, mtype.rest), LAMBDA repeat_indicator :
    TryBits(take_bits(30, repeat_indicator.rest), LAMBDA mmsi :
    TryBits(take_bits(2, mmsi.rest), LAMBDA spare :
        IF remaining_bits(spare.rest) < 6 THEN Eof
        ELSE TryBits(parse_6bit_ascii(spare.rest, remaining_bits(spare.rest)),
                     LAMBDA text :
                         [ok |-> TRUE,
                          val |-> [variant |-> "SafetyRelatedBroadcastMessage",
                                   message_type |-> mtype.val,
                                   repeat_indicator |-> repeat_indicator.val,
                                   mmsi |-> mmsi.val,
                                   text |-> text.val]])))))

\* the message types messages::parse has a match arm for
DispatchedTypes == (1..21) \cup {24, 27}

\* messages::parse: the first six bits select the decoder.  The arms of the
\* decoders modelled here are written out; the other arms of DispatchedTypes
\* call decoders that are not part of this model.
messages_parse(unarmored) ==
    LET t == take_bits(6, Cursor(unarmored))
    IN IF ~t.ok THEN Eof
       ELSE IF t.val \notin DispatchedTypes
            THEN [ok |-> FALSE, err |-> Nmea("Unimplemented type")]
       ELSE CASE t.val = 10 -> UtcDateInquiry_parse(unarmored)
              [] t.val = 14 -> SafetyRelatedBroadcastMessage_parse(unarmored)

\* the AisMessage variant each match arm of messages::parse wraps its
\* decoder's record in
ArmVariant ==
    [t \in DispatchedTypes |->
        CASE t \in 1..3 -> "PositionReport"
          [] t = 4 -> "BaseStationReport"
          [] t = 5 -> "StaticAndVoyageRelatedData"
          [] t = 7 -> "BinaryAcknowledgeMessage"
          [] t = 6 -> "BinaryAddressedMessage"
          [] t = 8 -> "BinaryBroadcastMessage"
          [] t = 9 -> "StandardAircraftPositionReport"
          [] t = 10 -> "UtcDateInquiry"
          [] t = 11 -> "UtcDateResponse"
          [] t = 12 -> "AddressedSafetyRelatedMessage"
          [] t = 13 -> "SafetyRelatedAcknowledgment"
          [] t = 14 -> "SafetyRelatedBroadcastMessage"
          [] t = 15 -> "Interrogation"
          [] t = 16 -> "AssignmentModeCommand"
          [] t = 17 -> "DgnssBroadcastBinaryMessage"
          [] t = 18 -> "StandardClassBPositionReport"
          [] t = 19 -> "ExtendedClassBPositionReport"
          [] t = 20 -> "DataLinkManagementMessage"
          [] t = 21 -> "AidToNavigationReport"
          [] t = 24 -> "StaticDataReport"
          [] t = 27 -> "LongRangeAisBroadcastMessage"]

\* messages::parse with every arm: the arms of types 10 and 14 run the
\* decoders above; the decoder of another arm either accepts the bits
\* (accepts) and its record is wrapped in the arm's variant, or fails and
\* the ? returns its error
dispatch(unarmored, accepts) ==
    LET t == take_bits(6, Cursor(unarmored))
    IN IF ~t.ok THEN Eof
       ELSE IF t.val \notin DispatchedTypes
            THEN [ok |-> FALSE, err |-> Nmea("Unimplemented type")]
       ELSE IF t.val \in {10, 14} THEN messages_parse(unarmored)
       ELSE IF accepts
            THEN [ok |-> TRUE,
                  val |-> [variant |-> ArmVariant[t.val],
                           message_type |-> t.val]]
       ELSE Eof

(***************************************************************************)
(* The lines given to the parser.  A line is built from its fields the way *)
(* a sender writes it; the parser sees only the bytes.                     *)
(***************************************************************************)
\* the decimal digits of a natural below 1000
Dec(n) ==
    IF n < 10 THEN <<48 + n>>
    ELSE IF n < 100 THEN <<48 + (n \div 10), 48 + (n % 10)>>
    ELSE <<48 + (n \div 100), 48 + ((n \div 10) % 10), 48 + (n % 10)>>

HexDigit(v) == IF v < 10 THEN 48 + v ELSE 55 + v

\* two upper-case hex digits
Hex2(v) == <<HexDigit(v \div 16), HexDigit(v % 16)>>

\* "AIVDM"
AIVDM == <<65, 73, 86, 68, 77>>

\* a type-14 payload that decodes on its own: ">0000000"
PayloadWhole == <<62, 48, 48, 48, 48, 48, 48, 48>>

\* the head of a type-14 payload, too short to decode alone: ">000"
PayloadShort == <<62, 48, 48, 48>>

\* a payload of type 22, which has no decoder: "F000"
PayloadUnimplemented == <<70, 48, 48, 48>>

\* a payload with a byte outside the armor alphabet: "0X00"
PayloadBadArmor == <<48, 88, 48, 48>>

\* payloads of the fragments of a group, and of single-fragment sentences
FragmentPayloads == {PayloadShort, PayloadBadArmor}

SinglePayloads ==
    {PayloadWhole, PayloadShort, PayloadUnimplemented, PayloadBadArmor}

Ids == {None, Some(1)}

Fills == {0, 2}

\* the bytes between the start character and the '*'
Body(count, index, id, payload, fill) ==
    AIVDM \o COMMA \o Dec(count) \o COMMA \o Dec(index) \o COMMA
    \o (IF id = None THEN <<>> ELSE Dec(id[1])) \o COMMA \o <<65>> \o COMMA
    \o payload \o COMMA \o Dec(fill)

\* the line with its checksum; good = FALSE declares a wrong checksum
Line(count, index, id, payload, fill, good) ==
    LET body == Body(count, index, id, payload, fill)
        sum == fold_xor(body, 0)
    IN BANG \o body \o STAR \o Hex2(IF good THEN sum ELSE (sum + 1) % 256)

\* lines that differ from the grammar or use its options
OddLines ==
    LET body == Body(1, 1, None, PayloadWhole, 0)
        sum == fold_xor(body, 0)
        six == Body(1, 1, None, PayloadWhole, 6)
        empty == Body(1, 1, None, <<>>, 0)
    IN {\* '$' as the start character
        DOLLAR \o body \o STAR \o Hex2(sum),
        \* a tag block before the sentence: \s:1*00\
        BACKSLASH \o <<115, 58, 49, 42, 48, 48>> \o BACKSLASH
            \o BANG \o body \o STAR \o Hex2(sum),
        \* no start character
        body \o STAR \o Hex2(sum),
        \* no checksum
        BANG \o body,
        \* a fill-bit count of 6
        BANG \o six \o STAR \o Hex2(fold_xor(six, 0)),
        \* an empty payload
        BANG \o empty \o STAR \o Hex2(fold_xor(empty, 0))}

\* well-formed lines that declare the checksum of their bytes: single
\* sentences, fragments, and last fragments with fill bits
GoodLines ==
    {Line(1, 1, id, payload, fill, TRUE) :
        id \in Ids, payload \in SinglePayloads, fill \in Fills}
    \cup
    {Line(1, index, id, payload, 0, TRUE) :
        index \in 0..MaxFrag, id \in Ids, payload \in SinglePayloads}
    \cup
    {Line(count, index, id, payload, 0, TRUE) :
        count \in (0..MaxFrag) \ {1}, index \in 0..MaxFrag, id \in Ids,
        payload \in FragmentPayloads}
    \cup
    {Line(count, count, id, payload, fill, TRUE) :
        count \in 2..MaxFrag, id \in Ids, payload \in FragmentPayloads,
        fill \in Fills}

\* lines that declare another checksum than that of their bytes
BadLines ==
    {Line(count, index, id, PayloadShort, 0, FALSE) :
        count \in 1..MaxFrag, index \in 1..2, id \in Ids}
    \cup {Line(1, 1, id, PayloadBadArmor, 0, FALSE) : id \in Ids}

Lines == GoodLines \cup BadLines \cup OddLines

\* parse_nmea_sentence on every line of the model, tabulated once
Framed == [l \in Lines |-> parse_nmea_sentence(l)] @@ <<>>

\* Self::check_checksum(data, checksum) of every framed line, as a table
Summed ==
    [l \in Lines |->
        IF Framed[l].ok
        THEN check_checksum(Framed[l].raw, Framed[l].checksum)
        ELSE Fail] @@ <<>>

\* the message layer as parse calls it: unarmor, then messages::parse
decode_message(ais_sentence) ==
    Try(unarmor(ais_sentence.data, ais_sentence.fill_bit_count),
        LAMBDA unarmored :
            Try(messages_parse(unarmored.val), LAMBDA message :
                [ok |-> TRUE, val |-> message.val]))

\* the payloads a run of at most n fragments of the model can join to
RECURSIVE Joined(_)
Joined(n) ==
    IF n = 0 THEN {<<>>}
    ELSE Joined(n - 1)
         \cup {p \o f : p \in Joined(n - 1), f \in FragmentPayloads}

\* the message layer on every payload and fill the model can hand to it,
\* tabulated once
Decoded ==
    [p \in (Joined(MaxFrag) \cup SinglePayloads) \X Fills |->
        decode_message([data |-> p[1], fill_bit_count |-> p[2]])] @@ <<>>

(***************************************************************************)
(* The parser (struct AisParser) and its caller.                           *)
(***************************************************************************)
VARIABLES
    message_id,       \* AisParser.message_id: Option<u8>
    fragment_number,  \* AisParser.fragment_number: u8
    data,             \* AisParser.data: the reassembly buffer
    overflow_checks,  \* the build: TRUE when u8 overflow panics, FALSE when it wraps
    pc,               \* "ready", "returned" (a result is held), "aborted" (panic)
    line,             \* the line of the call that returned
    decode,           \* the decode flag of the call that returned
    result,           \* what the call returned
    group,            \* history: the group the caller is feeding in order
    after_error,      \* history: the previous call returned an error
    interrupted,      \* history: the call began with a group in the buffer
    accepted_bytes,   \* history: the payload bytes of the fragments accepted
                      \* since the most recent index-1 fragment, it included
    call,             \* a function of the message layer called on its own, with its arguments
    ret               \* what that function returned

parser == <<message_id, fragment_number, data>>

vars == <<message_id, fragment_number, data, overflow_checks, pc, line, decode,
          result, group, after_error, interrupted, accepted_bytes, call, ret>>

\* no function of the message layer has been called on its own
NoCall == [fn |-> "none"]

NoResult == [kind |-> "None"]

NoGroup == [count |-> 0, id |-> None, payloads |-> <<>>]

\* AisParser::new, Default
Init ==
    /\ message_id = None
    /\ fragment_number = 0
    /\ data = <<>>
    /\ overflow_checks \in BOOLEAN
    /\ pc = "ready"
    /\ line = <<>>
    /\ decode = FALSE
    /\ result = NoResult
    /\ group = NoGroup
    /\ after_error = FALSE
    /\ interrupted = FALSE
    /\ accepted_bytes = 0
    /\ call = NoCall
    /\ ret = NoCall

Self == [message_id |-> message_id, fragment_number |-> fragment_number,
         data |-> data]

\* verify_and_extend_data with the payload put in front of the buffer
verify_and_extend_data_prepend(self, ais_sentence) ==
    LET underflow == ais_sentence.fragment_number < self.fragment_number
        diff == (ais_sentence.fragment_number - self.fragment_number) % 256
    IN IF self.message_id # ais_sentence.message_id
       THEN [ok |-> FALSE, panic |-> FALSE, self |-> self,
             err |-> Nmea("Message ID out of sequence")]
       ELSE IF underflow /\ overflow_checks
       THEN [ok |-> FALSE, panic |-> TRUE, self |-> self]
       ELSE IF diff # 1
       THEN [ok |-> FALSE, panic |-> FALSE, self |-> self,
             err |-> Nmea("Fragment numbers out of sequence")]
       ELSE [ok |-> TRUE, panic |-> FALSE,
             self |-> [self EXCEPT
                          !.fragment_number = ais_sentence.fragment_number,
                          !.data = ais_sentence.data \o self.data]]

\* verify_and_extend_data that records the index before it compares it
verify_and_extend_data_record_first(self, ais_sentence) ==
    LET underflow == ais_sentence.fragment_number < self.fragment_number
        diff == (ais_sentence.fragment_number - self.fragment_number) % 256
        recorded == [self EXCEPT
                        !.fragment_number = ais_sentence.fragment_number]
    IN IF self.message_id # ais_sentence.message_id
       THEN [ok |-> FALSE, panic |-> FALSE, self |-> self,
             err |-> Nmea("Message ID out of sequence")]
       ELSE IF underflow /\ overflow_checks
       THEN [ok |-> FALSE, panic |-> TRUE, self |-> self]
       ELSE IF diff # 1
       THEN [ok |-> FALSE, panic |-> FALSE, self |-> recorded,
             err |-> Nmea("Fragment numbers out of sequence")]
       ELSE [ok |-> TRUE, panic |-> FALSE,
             self |-> [recorded EXCEPT
                          !.data = self.data \o ais_sentence.data]]

\* verify_and_extend_data that extends the buffer by the payload twice
verify_and_extend_data_twice(self, ais_sentence) ==
    LET underflow == ais_sentence.fragment_number < self.fragment_number
        diff == (ais_sentence.fragment_number - self.fragment_number) % 256
    IN IF self.message_id # ais_sentence.message_id
       THEN [ok |-> FALSE, panic |-> FALSE, self |-> self,
             err |-> Nmea("Message ID out of sequence")]
       ELSE IF underflow /\ overflow_checks
       THEN [ok |-> FALSE, panic |-> TRUE, self |-> self]
       ELSE IF diff # 1
       THEN [ok |-> FALSE, panic |-> FALSE, self |-> self,
             err |-> Nmea("Fragment numbers out of sequence")]
       ELSE [ok |-> TRUE, panic |-> FALSE,
             self |-> [self EXCEPT
                          !.fragment_number = ais_sentence.fragment_number,
                          !.data = self.data \o ais_sentence.data
                                       \o ais_sentence.data]]

\* AisParser::verify_and_extend_data on the parser state `self`:
\* [ok, self] on success, [ok, err, self] on an error, [panic] when the u8
\* subtraction overflows in a build that checks overflow
verify_and_extend_data(self, ais_sentence) ==
    LET underflow == ais_sentence.fragment_number < self.fragment_number
        diff == (ais_sentence.fragment_number - self.fragment_number) % 256
    IN IF self.message_id # ais_sentence.message_id
       THEN [ok |-> FALSE, panic |-> FALSE, self |-> self,
             err |-> Nmea("Message ID out of sequence")]
       ELSE IF underflow /\ overflow_checks
       THEN [ok |-> FALSE, panic |-> TRUE, self |-> self]
       ELSE IF diff # 1
       THEN [ok |-> FALSE, panic |-> FALSE, self |-> self,
             err |-> Nmea("Fragment numbers out of sequence")]
       ELSE [ok |-> TRUE, panic |-> FALSE,
             self |-> [self EXCEPT
                          !.fragment_number = ais_sentence.fragment_number,
                          !.data = self.data \o ais_sentence.data]]

\* parse without the reset on an index-1 fragment
reset_never(self, ais_sentence) == self

\* the reset of parse on a fragment that has more to come: an index-1
\* fragment records its group id and clears the last index and the buffer
reset(self, ais_sentence) ==
    IF ais_sentence.fragment_number = 1
    THEN [message_id |-> ais_sentence.message_id,
          fragment_number |-> 0, data |-> <<>>]
    ELSE self

\* parse that keeps the buffer and the last index when the message layer
\* refuses the joined payload
reassemble_keep_on_error(self, ais_sentence, dec) ==
    IF has_more(ais_sentence)
    THEN LET v == verify_and_extend_data(reset(self, ais_sentence),
                                         ais_sentence)
         IN IF v.panic THEN [panic |-> TRUE, self |-> v.self]
            ELSE IF ~v.ok
            THEN [panic |-> FALSE, self |-> v.self, out |-> v.err]
            ELSE [panic |-> FALSE, self |-> v.self,
                  out |-> [kind |-> "Incomplete", sentence |-> ais_sentence]]
    ELSE LET v == IF is_fragment(ais_sentence)
                  THEN verify_and_extend_data(self, ais_sentence)
                  ELSE [ok |-> TRUE, panic |-> FALSE, self |-> self]
             joined == IF is_fragment(ais_sentence)
                       THEN [ais_sentence EXCEPT !.data = v.self.data]
                       ELSE ais_sentence
             swapped == IF is_fragment(ais_sentence)
                        THEN [v.self EXCEPT !.data = <<>>]
                        ELSE v.self
             m == Decoded[<<joined.data, joined.fill_bit_count>>]
         IN IF v.panic THEN [panic |-> TRUE, self |-> v.self]
            ELSE IF ~v.ok
            THEN [panic |-> FALSE, self |-> v.self, out |-> v.err]
            ELSE IF ~dec
            THEN [panic |-> FALSE, self |-> swapped,
                  out |-> [kind |-> "Complete", sentence |-> joined]]
            ELSE IF ~m.ok /\ "panic" \in DOMAIN m
            THEN [panic |-> TRUE, self |-> self]
            ELSE IF ~m.ok
            THEN [panic |-> FALSE, self |-> self, out |-> m.err]
            ELSE [panic |-> FALSE, self |-> swapped,
                  out |-> [kind |-> "Complete",
                           sentence |-> [joined EXCEPT
                                            !.message = Some(m.val)]]]

\* AisParser::parse after the framer and the checksum: the reassembler and
\* the message layer.  Returns [self, out] or [panic].
reassemble(self, ais_sentence, dec) ==
    IF has_more(ais_sentence)
    THEN LET v == verify_and_extend_data(reset(self, ais_sentence),
                                         ais_sentence)
         IN IF v.panic THEN [panic |-> TRUE, self |-> v.self]
            ELSE IF ~v.ok
            THEN [panic |-> FALSE, self |-> v.self, out |-> v.err]
            ELSE [panic |-> FALSE, self |-> v.self,
                  out |-> [kind |-> "Incomplete", sentence |-> ais_sentence]]
    ELSE LET v == IF is_fragment(ais_sentence)
                  THEN verify_and_extend_data(self, ais_sentence)
                  ELSE [ok |-> TRUE, panic |-> FALSE, self |-> self]
             \* mem::swap of the buffer into the sentence
             joined == IF is_fragment(ais_sentence)
                       THEN [ais_sentence EXCEPT !.data = v.self.data]
                       ELSE ais_sentence
             swapped == IF is_fragment(ais_sentence)
                        THEN [v.self EXCEPT !.data = <<>>]
                        ELSE v.self
             m == Decoded[<<joined.data, joined.fill_bit_count>>]
         IN IF v.panic THEN [panic |-> TRUE, self |-> v.self]
            ELSE IF ~v.ok
            THEN [panic |-> FALSE, self |-> v.self, out |-> v.err]
            ELSE IF ~dec
            THEN [panic |-> FALSE, self |-> swapped,
                  out |-> [kind |-> "Complete", sentence |-> joined]]
            ELSE IF ~m.ok /\ "panic" \in DOMAIN m
            THEN [panic |-> TRUE, self |-> swapped]
            ELSE IF ~m.ok
            THEN [panic |-> FALSE, self |-> swapped, out |-> m.err]
            ELSE [panic |-> FALSE, self |-> swapped,
                  out |-> [kind |-> "Complete",
                           sentence |-> [joined EXCEPT
                                            !.message = Some(m.val)]]]

\* parse with the checksum compared after the reassembler has run
parse_outcome_sum_last(self, l, dec) ==
    LET framed == Framed[l]
        sum == Summed[l]
    IN IF ~framed.ok
       THEN [panic |-> FALSE, self |-> self, out |-> Nmea("Parsing Error")]
       ELSE Let(reassemble(self, framed.msg, dec), LAMBDA r :
               IF r.panic \/ sum.ok THEN r
               ELSE [panic |-> FALSE, self |-> r.self, out |-> sum.err])

\* parse that hands every complete sentence to the message layer
parse_outcome_decoding(self, l, dec) ==
    LET framed == Framed[l]
        sum == Summed[l]
    IN IF ~framed.ok
       THEN [panic |-> FALSE, self |-> self, out |-> Nmea("Parsing Error")]
       ELSE IF ~sum.ok
       THEN [panic |-> FALSE, self |-> self, out |-> sum.err]
       ELSE reassemble(self, framed.msg, TRUE)

\* AisParser::parse as a function of the parser state and the arguments
parse_outcome(self, l, dec) ==
    LET framed == Framed[l]
        sum == Summed[l]
    IN IF ~framed.ok
       THEN [panic |-> FALSE, self |-> self, out |-> Nmea("Parsing Error")]
       ELSE IF ~sum.ok
       THEN [panic |-> FALSE, self |-> self, out |-> sum.err]
       ELSE reassemble(self, framed.msg, dec)

IsError(r) == r.kind \in {"Nmea", "Checksum"}

\* history: the group fed in index order so far, as the lines declare it
NextGroup(g, l) ==
    LET framed == Framed[l]
        s == framed.msg
    IN IF ~framed.ok THEN NoGroup
       ELSE IF ~Summed[l].ok THEN NoGroup
       ELSE IF s.num_fragments > 1 /\ s.fragment_number = 1
       THEN [count |-> s.num_fragments, id |-> s.message_id,
             payloads |-> <<s.data>>]
       ELSE IF /\ g.count > 1
               /\ s.num_fragments = g.count
               /\ s.message_id = g.id
               /\ s.fragment_number = Len(g.payloads) + 1
               /\ s.fragment_number <= g.count
       THEN [g EXCEPT !.payloads = Append(@, s.data)]
       ELSE NoGroup

\* history: parse accepts the sentence of the line into the reassembly
\* buffer, that is verify_and_extend_data runs on it and returns Ok
AcceptsFragment(self, l) ==
    /\ Framed[l].ok
    /\ Summed[l].ok
    /\ is_fragment(Framed[l].msg)
    /\ verify_and_extend_data(IF has_more(Framed[l].msg)
                              THEN reset(self, Framed[l].msg) ELSE self,
                              Framed[l].msg).ok

\* history: the payload bytes accepted since the most recent index-1 fragment
NextAccepted(bytes, self, l) ==
    IF ~AcceptsFragment(self, l) THEN bytes
    ELSE IF Framed[l].msg.fragment_number = 1 THEN Len(Framed[l].msg.data)
    ELSE bytes + Len(Framed[l].msg.data)

\* one call of AisParser::parse(line, decode)
parse(l, dec) ==
    /\ pc = "ready"
    /\ \E o \in {parse_outcome(Self, l, dec)} :
          /\ message_id' = o.self.message_id
          /\ fragment_number' = o.self.fragment_number
          /\ data' = o.self.data
          /\ pc' = IF o.panic THEN "aborted" ELSE "returned"
          /\ result' = IF o.panic THEN [kind |-> "Panic"] ELSE o.out
    /\ line' = l
    /\ decode' = dec
    /\ group' = NextGroup(group, l)
    /\ interrupted' = (data # <<>>)
    /\ accepted_bytes' = NextAccepted(accepted_bytes, Self, l)
    /\ UNCHANGED <<overflow_checks, after_error, call, ret>>

\* the caller takes the result and goes on to the next line
NextLine ==
    /\ pc = "returned"
    /\ pc' = "ready"
    /\ after_error' = IsError(result)
    /\ line' = <<>>
    /\ decode' = FALSE
    /\ result' = NoResult
    /\ interrupted' = FALSE
    /\ UNCHANGED <<message_id, fragment_number, data, overflow_checks, group,
                   accepted_bytes, call, ret>>

Call == \E l \in Lines, dec \in BOOLEAN : parse(l, dec)

Next == Call \/ NextLine

Spec == Init /\ [][Next]_vars

(***************************************************************************)
(* The functions of the message layer called on their own, as the tests of *)
(* the crate and its users call them.  The parser is left alone: a call    *)
(* sets `call` to the function and its arguments and `ret` to the result.  *)
(***************************************************************************)
sentence_vars == <<message_id, fragment_number, data, overflow_checks, pc, line,
                   decode, result, group, after_error, interrupted,
                   accepted_bytes>>

\* the caller holds no result
Idle == call = NoCall

\* a call of a function of the message layer and its result
Returns(c, r) ==
    /\ call' = c
    /\ ret' = r
    /\ UNCHANGED sentence_vars

\* the caller is done with the result
Forget ==
    /\ call # NoCall
    /\ call' = NoCall
    /\ ret' = NoCall
    /\ UNCHANGED sentence_vars

(***************************************************************************)
(* Properties of AisParser::parse.  A call has ended when pc is not        *)
(* "ready"; `line`, `decode` and `result` are then those of the call.      *)
(***************************************************************************)
Called == pc # "ready"

\* the framer read a sentence from the line of the call
WellFramed == Called /\ Framed[line].ok

\* the sentence the framer read from the line of the call
Sentence == Framed[line].msg

\* the position of the start character of a line, after any tag block
StartOf(l) ==
    CHOOSE i \in 1..Len(l) :
        /\ l[i] \in {33, 36}
        /\ \A j \in 1..(i - 1) : l[j] \notin {33, 36}

\* the position of the first '*' after the start character
StarOf(l) ==
    CHOOSE i \in (StartOf(l) + 1)..Len(l) :
        /\ l[i] = 42
        /\ \A j \in (StartOf(l) + 1)..(i - 1) : l[j] # 42

\* the exclusive or of the bytes of s, one bit position at a time: bit k is
\* set when an odd number of bytes have it set
ParityXor(s) ==
    LET odd(k) == Cardinality({i \in 1..Len(s) : (s[i] \div (2 ^ k)) % 2 = 1}) % 2
    IN odd(0) + 2 * odd(1) + 4 * odd(2) + 8 * odd(3) + 16 * odd(4)
       + 32 * odd(5) + 64 * odd(6) + 128 * odd(7)

\* the XOR of the bytes strictly between the start character and the '*'
FoundChecksum(l) == ParityXor(SubSeq(l, StartOf(l) + 1, StarOf(l) - 1))

\* the value the two hex digits after the '*' declare
DeclaredChecksum(l) ==
    CHOOSE v \in 0..255 : Hex2(v) = SubSeq(l, StarOf(l) + 1, StarOf(l) + 2)

\* the declared and the found checksum of every line the framer reads a
\* sentence from, tabulated once
Checksums ==
    [l \in {x \in Lines : Framed[x].ok} |->
        [declared |-> DeclaredChecksum(l), found |-> FoundChecksum(l)]] @@ <<>>

\* the message layer accepts the payload of a call that asks for decoding
Decodable(payload, fill) == decode => Decoded[<<payload, fill>>].ok

\* the concatenation of a sequence of payloads, in order
RECURSIVE Concat(_)
Concat(ps) == IF ps = <<>> THEN <<>> ELSE Head(ps) \o Concat(Tail(ps))

\* C1: in-order reassembly.  When the call was given fragment k of a group
\* of n > 1 fragments with one group id, fed in index order 1..k by the
\* calls up to it, it returned Incomplete for k < n and Complete for k = n,
\* the Complete sentence carrying the payloads of the n fragments joined in
\* arrival order and the fill-bit count of the n-th sentence.  The sentences
\* are valid: with decode set, the message layer accepts the joined payload.
InOrderReassembly ==
    (Called /\ group.count > 1 /\ group.payloads # <<>>) =>
        IF Len(group.payloads) < group.count
        THEN result.kind = "Incomplete"
        ELSE Decodable(Concat(group.payloads), Sentence.fill_bit_count) =>
                /\ result.kind = "Complete"
                /\ result.sentence.data = Concat(group.payloads)
                /\ result.sentence.fill_bit_count = Sentence.fill_bit_count

\* a group of three fragments was completed and decoded, with fill bits
InOrderReassemblyWitness ==
    /\ pc = "returned"
    /\ group.count = 3
    /\ Len(group.payloads) = 3
    /\ decode
    /\ result.kind = "Complete"
    /\ result.sentence.fill_bit_count = 2
    /\ result.sentence.data = PayloadShort \o PayloadShort \o PayloadShort

\* C2: for every well-formed sentence, parse returns a checksum error
\* exactly when the declared value differs from the XOR of the bytes between
\* the start character and the '*'; the error carries the declared value as
\* expected and the XOR as found.
ChecksumContract ==
    WellFramed =>
        /\ result.kind = "Checksum"
               <=> Checksums[line].declared # Checksums[line].found
        /\ result.kind = "Checksum" =>
               /\ result.expected = Checksums[line].declared
               /\ result.found = Checksums[line].found

\* a checksum error was returned, carrying the declared value
ChecksumContractWitness ==
    /\ pc = "returned"
    /\ result.kind = "Checksum"
    /\ result.expected # result.found
    /\ result.expected = Checksums[line].declared

\* the line of the call is well formed and declares the XOR of its bytes
Valid == WellFramed /\ Checksums[line].declared = Checksums[line].found

\* the two errors of verify_and_extend_data
FragmentSequenceError(r) ==
    /\ r.kind = "Nmea"
    /\ r.msg \in {"Message ID out of sequence",
                  "Fragment numbers out of sequence"}

\* a call begins on a parser that is accumulating a group
Accumulating == pc = "ready" /\ data # <<>>

\* C3: while a group is being accumulated, a fragment with index >= 2 is
\* rejected with a fragment-sequence error if its group id differs from the
\* recorded group id or its index is not exactly last_index + 1.
OutOfSequenceRejected ==
    [][(/\ Accumulating
        /\ Valid'
        /\ Sentence'.num_fragments > 1
        /\ Sentence'.fragment_number >= 2
        /\ \/ Sentence'.message_id # message_id
           \/ Sentence'.fragment_number # fragment_number + 1)
       => FragmentSequenceError(result')]_vars

\* C4: while a group is being accumulated, a new fragment with index 1 and
\* fragment-count > 1 is rejected with a fragment-sequence error.
RestartRejected ==
    [][(/\ Accumulating
        /\ Valid'
        /\ Sentence'.num_fragments > 1
        /\ Sentence'.fragment_number = 1)
       => FragmentSequenceError(result')]_vars

\* C4, as the code has it: while a group is being accumulated, a new
\* fragment with index 1 and fragment-count > 1 is accepted.  It returns
\* Incomplete, the group in the buffer is dropped, and the parser holds the
\* new fragment's group id, last index 1 and the new fragment's payload.
RestartAccepted ==
    [][(/\ Accumulating
        /\ Valid'
        /\ Sentence'.num_fragments > 1
        /\ Sentence'.fragment_number = 1)
       => /\ result'.kind = "Incomplete"
          /\ message_id' = Sentence'.message_id
          /\ fragment_number' = 1
          /\ data' = Sentence'.data]_vars

\* an index-1 fragment with another group id came in the middle of a group
RestartAcceptedWitness ==
    /\ pc = "returned"
    /\ interrupted
    /\ Valid
    /\ Sentence.num_fragments > 1
    /\ Sentence.fragment_number = 1
    /\ result.kind = "Incomplete"
    /\ data = PayloadBadArmor
    /\ message_id = None

\* the last calls fed a whole group in order and the last one returned it
GroupReturned ==
    /\ pc = "ready"
    /\ group.count > 1
    /\ Len(group.payloads) = group.count
    /\ ~after_error

\* C5: after the final fragment of a multi-fragment group has been accepted
\* the reassembler is Idle: a following fragment with index >= 2, not
\* preceded by a new index-1 fragment, is rejected with a fragment-sequence
\* error, for every group id and every index.
StrayFragmentRejected ==
    [][(/\ GroupReturned
        /\ Valid'
        /\ Sentence'.num_fragments > 1
        /\ Sentence'.fragment_number >= 2)
       => FragmentSequenceError(result')]_vars

\* C6: recovery.  In every reachable state of the parser, the states right
\* after an error among them, (a) a well-formed single-fragment sentence
\* returns Complete and (b) a well-formed group given in order 1..n returns
\* Complete on its n-th fragment.  Well-formed includes, with decode set,
\* that the message layer accepts the payload.
Recovery ==
    /\ (/\ Valid
        /\ Sentence.num_fragments = 1
        /\ Sentence.fragment_number = 1
        /\ Decodable(Sentence.data, Sentence.fill_bit_count))
       => result.kind = "Complete" /\ result.sentence.data = Sentence.data
    /\ (/\ Called
        /\ group.count > 1
        /\ Len(group.payloads) = group.count
        /\ Decodable(Concat(group.payloads), Sentence.fill_bit_count))
       => result.kind = "Complete"

\* a single-fragment sentence is returned by the call after an error, with
\* a group left in the buffer
RecoveryWitness ==
    /\ pc = "returned"
    /\ after_error
    /\ data # <<>>
    /\ decode
    /\ Valid
    /\ Sentence.num_fragments = 1
    /\ Sentence.fragment_number = 1
    /\ result.kind = "Complete"

\* C7: when parse returns a fragment-sequence error, the recorded group id,
\* the last index and the accumulated bytes are what they were before the
\* call.
SequenceErrorKeepsState ==
    [][(pc = "ready" /\ FragmentSequenceError(result'))
       => /\ message_id' = message_id
          /\ fragment_number' = fragment_number
          /\ data' = data]_vars

\* a fragment that skips an index was rejected in the middle of a group
SequenceErrorKeepsStateWitness ==
    /\ pc = "returned"
    /\ result = Nmea("Fragment numbers out of sequence")
    /\ data # <<>>
    /\ Sentence.message_id = message_id
    /\ Sentence.fragment_number > fragment_number + 1

\* C8: a sentence whose checksum does not match is rejected with the
\* checksum error and the parser state is unchanged by the call, whatever
\* the sentence is (an index-1 fragment in the middle of a group, a payload
\* the message layer would refuse).
ChecksumRejectedFirst ==
    [][(/\ pc = "ready"
        /\ WellFramed'
        /\ Checksums[line'].declared # Checksums[line'].found)
       => /\ result'.kind = "Checksum"
          /\ message_id' = message_id
          /\ fragment_number' = fragment_number
          /\ data' = data]_vars

\* an index-1 fragment with a wrong checksum came in the middle of a group
ChecksumRejectedFirstWitness ==
    /\ pc = "returned"
    /\ result.kind = "Checksum"
    /\ decode
    /\ Sentence.num_fragments > 1
    /\ Sentence.fragment_number = 1
    /\ Sentence.message_id # message_id
    /\ fragment_number = 2
    /\ data # <<>>

\* the errors of the message layer: unarmor, the dispatcher, the decoders
PayloadError(r) ==
    /\ r.kind = "Nmea"
    /\ r.msg \in {"Value out of range", "Unimplemented type", "Eof"}

\* C9: with decode = false every Complete result has no inner message and
\* no call fails because of the payload content; with decode = true every
\* Complete result carries an inner message; every Incomplete result has no
\* inner message.
DecodeFlag ==
    pc = "returned" =>
        /\ result.kind = "Complete" =>
                (result.sentence.message # None <=> decode)
        /\ result.kind = "Incomplete" => result.sentence.message = None
        /\ ~decode => ~PayloadError(result)
        /\ (~decode /\ Valid) =>
                \/ result.kind \in {"Complete", "Incomplete"}
                \/ FragmentSequenceError(result)

\* a sentence with an illegal armor byte is returned undecoded
DecodeFlagWitness ==
    /\ pc = "returned"
    /\ ~decode
    /\ result.kind = "Complete"
    /\ result.sentence.data = PayloadBadArmor
    /\ result.sentence.message = None

\* C10: every sentence that parse returns, Complete or Incomplete, has
\* fragment-count >= 1, fragment-index >= 1, fragment-index <=
\* fragment-count and fill-bit count < 6.
FrameInvariants ==
    (pc = "returned" /\ result.kind \in {"Complete", "Incomplete"}) =>
        /\ result.sentence.num_fragments >= 1
        /\ result.sentence.fragment_number >= 1
        /\ result.sentence.fragment_number <= result.sentence.num_fragments
        /\ result.sentence.fill_bit_count < 6

(***************************************************************************)
(* messages::parse on bitstreams of every message type.                    *)
(***************************************************************************)
\* n zero bytes
RECURSIVE Zeros(_)
Zeros(n) == IF n = 0 THEN <<>> ELSE <<0>> \o Zeros(n - 1)

\* the lengths of what follows the first byte: nothing, too little for the
\* decoders of types 10 and 14, enough for both
TailLengths == {0, 3, 9}

\* bitstreams whose first six bits are t, for every 6-bit t, and the empty one
Bitstreams ==
    {<<>>} \cup {<<4 * t + low>> \o Zeros(n) :
                    t \in 0..63, low \in {0, 3}, n \in TailLengths}

\* a call of messages::parse
Dispatch ==
    /\ Idle
    /\ \E unarmored \in Bitstreams, accepts \in BOOLEAN :
          Returns([fn |-> "messages::parse", unarmored |-> unarmored,
                   accepts |-> accepts],
                  dispatch(unarmored, accepts))

DispatchNext == Dispatch \/ Forget

DispatchSpec == Init /\ [][DispatchNext]_vars

\* messages::parse was called on a bitstream with a first byte
Dispatched == call.fn = "messages::parse" /\ call.unarmored # <<>>

\* the message type a bitstream carries in its first six bits
TypeOf(unarmored) == unarmored[1] \div 4

\* the message types the specification enumerates a decoder for
EnumeratedTypes == (1..21) \cup {23, 24, 27}

\* the record of each enumerated type, by the name of its type
RecordOf ==
    [t \in EnumeratedTypes |->
        IF t <= 3 THEN "PositionReport"
        ELSE <<"BaseStationReport", "StaticAndVoyageRelatedData",
               "BinaryAddressedMessage", "BinaryAcknowledgeMessage",
               "BinaryBroadcastMessage", "StandardAircraftPositionReport",
               "UtcDateInquiry", "UtcDateResponse",
               "AddressedSafetyRelatedMessage", "SafetyRelatedAcknowledgment",
               "SafetyRelatedBroadcastMessage", "Interrogation",
               "AssignmentModeCommand", "DgnssBroadcastBinaryMessage",
               "StandardClassBPositionReport", "ExtendedClassBPositionReport",
               "DataLinkManagementMessage", "AidToNavigationReport",
               "Reserved22", "GroupAssignmentCommand", "StaticDataReport",
               "Reserved25", "Reserved26",
               "LongRangeAisBroadcastMessage">>[t - 3]]

UnimplementedType(r) == ~r.ok /\ r.err = Nmea("Unimplemented type")

\* C11: messages::parse reads the first six bits as the message type; for
\* every enumerated type (1-21, 23, 24, 27) it returns the record variant of
\* that type when the decoder accepts the bits and never an
\* unimplemented-type error, and for every other 6-bit code it returns an
\* unimplemented-type error.
DispatchCoverage ==
    Dispatched =>
        IF TypeOf(call.unarmored) \in EnumeratedTypes
        THEN /\ ~UnimplementedType(ret)
             /\ ret.ok => ret.val.variant = RecordOf[TypeOf(call.unarmored)]
        ELSE UnimplementedType(ret)

(***************************************************************************)
(* messages::unarmor on armored byte strings.                              *)
(***************************************************************************)
MaxArmor == 3

\* armored bytes at the edges of the two ranges of unarmor, inside and out
ArmorBytes == {47, 48, 57, 75, 87, 88, 95, 96, 113, 114, 119, 120}

\* the byte strings of length n over ArmorBytes
RECURSIVE ArmoredOfLen(_)
ArmoredOfLen(n) ==
    IF n = 0 THEN {<<>>}
    ELSE {p \o <<b>> : p \in ArmoredOfLen(n - 1), b \in ArmorBytes}

\* the inputs of the tests of unarmor: "9", "9q", "9qKr", "9qWr", "9qW"
TestArmored ==
    {<<57>>, <<57, 113>>, <<57, 113, 75, 114>>, <<57, 113, 87, 114>>,
     <<57, 113, 87>>}

Armored == UNION {ArmoredOfLen(n) : n \in 0..MaxArmor} \cup TestArmored

\* a call of messages::unarmor
Unarmor ==
    /\ Idle
    /\ \E input \in Armored, fill_bits \in 0..(FillBitLimit - 1) :
          Returns([fn |-> "unarmor", input |-> input, fill_bits |-> fill_bits],
                  unarmor(input, fill_bits))

UnarmorNext == Unarmor \/ Forget

UnarmorSpec == Init /\ [][UnarmorNext]_vars

\* unarmor was called
Unarmored == call.fn = "unarmor"

\* the 6-bit value the armoring gives a byte of one of the two ranges
SixBit(b) == IF 48 <= b /\ b <= 87 THEN b - 48 ELSE b - 56

InArmorRange(b) == (48 <= b /\ b <= 87) \/ (96 <= b /\ b <= 119)

\* bit k, counted from 0 at the most significant bit of the first value, of
\* the 6N-bit stream of the values of an armored string
StreamBit(input, k) ==
    (SixBit(input[(k \div 6) + 1]) \div (2 ^ (5 - (k % 6)))) % 2

\* bit k of a buffer, counted from 0 at the most significant bit of byte 1
BufferBit(buf, k) == (buf[(k \div 8) + 1] \div (2 ^ (7 - (k % 8)))) % 2

\* the number of bytes that hold n bits
BytesFor(n) == (n + 7) \div 8

\* C12: unarmor maps each byte b to b-48 (48..87) or b-56 (96..119), packs
\* the values most significant bit first into a buffer of exactly
\* ceil(6N/8) bytes whose bits beyond position 6N are zero, and fails with
\* the armor-out-of-range error exactly when some byte is outside both
\* ranges.  The packing is compared for a fill count of 0; the length, the
\* zero bits and the error for every fill count on a non-empty input.
UnarmorPacking ==
    (Unarmored /\ (call.fill_bits = 0 \/ call.input # <<>>)) =>
        LET input == call.input
            N == Len(input)
        IN IF \A i \in 1..N : InArmorRange(input[i])
           THEN /\ ret.ok
                /\ Len(ret.val) = BytesFor(6 * N)
                /\ \A k \in (6 * N)..(8 * Len(ret.val) - 1) :
                       BufferBit(ret.val, k) = 0
                /\ call.fill_bits = 0 =>
                       \A k \in 0..(6 * N - 1) :
                           BufferBit(ret.val, k) = StreamBit(input, k)
           ELSE /\ ~ret.ok
                /\ "err" \in DOMAIN ret
                /\ ret.err = Nmea("Value out of range")

\* the values 39, 40 and 63 were packed across three bytes
UnarmorPackingWitness ==
    /\ Unarmored
    /\ call.input = <<87, 96, 119>>
    /\ call.fill_bits = 0
    /\ ret.ok
    /\ ret.val = <<158, 143, 192>>

\* C13: for every armored input of length N >= 1 and every fill count f in
\* 0..5, the output of unarmor is the unmasked packing with exactly the last
\* f bits of the 6N-bit stream cleared and every other bit unchanged.
FillBitMasking ==
    (Unarmored /\ call.input # <<>> /\ ret.ok) =>
        LET input == call.input
            N == Len(input)
            f == call.fill_bits
        IN /\ Len(ret.val) = BytesFor(6 * N)
           /\ \A k \in 0..(8 * Len(ret.val) - 1) :
                  BufferBit(ret.val, k) =
                      IF k < 6 * N - f THEN StreamBit(input, k) ELSE 0

\* three fill bits were cleared across the last two bytes of "www"
FillBitMaskingWitness ==
    /\ Unarmored
    /\ call.input = <<119, 119, 119>>
    /\ call.fill_bits = 3
    /\ ret.ok
    /\ ret.val = <<255, 254, 0>>

(***************************************************************************)
(* parsers::signed_i32.  An i32 is kept as its 32 bits, most significant   *)
(* first, so that the shifts and masks are those of the machine word.      *)
(***************************************************************************)
\* size_of::<i32>() * 8
I32Bits == 32

\* a bit pattern as the low bits of an i32 (what take_bits::<_, i32, _, _>
\* accumulates)
ZeroExtend(bits) ==
    [i \in 1..I32Bits |->
        IF i <= I32Bits - Len(bits) THEN 0 ELSE bits[i - (I32Bits - Len(bits))]]

\* !0i32
AllOnes == [i \in 1..I32Bits |-> 1]

\* x << n for n below the width of the word
ShlWord(x, n) == [i \in 1..I32Bits |-> IF i + n <= I32Bits THEN x[i + n] ELSE 0]

\* x << n on an i32: a shift by the width or more panics in a build that
\* checks overflow and shifts by n mod 32 in one that does not
shl_i32(x, n) ==
    IF n >= I32Bits /\ overflow_checks THEN [panic |-> TRUE]
    ELSE [panic |-> FALSE, val |-> ShlWord(x, n % I32Bits)]

OrWord(x, y) == [i \in 1..I32Bits |-> IF x[i] = 1 \/ y[i] = 1 THEN 1 ELSE 0]

AndWord(x, y) == [i \in 1..I32Bits |-> IF x[i] = 1 /\ y[i] = 1 THEN 1 ELSE 0]

NotWord(x) == [i \in 1..I32Bits |-> 1 - x[i]]

\* i32::leading_zeros() == 0
NoLeadingZeros(x) == x[1] = 1

\* the value of a sequence of bits as an unsigned number
RECURSIVE UnsignedOf(_, _)
UnsignedOf(bits, acc) ==
    IF bits = <<>> THEN acc ELSE UnsignedOf(Tail(bits), 2 * acc + Head(bits))

\* the number an i32 word stands for
I32Value(x) ==
    IF x[1] = 1
    THEN (UnsignedOf(Tail(x), 0) - 2 ^ (I32Bits - 2)) - 2 ^ (I32Bits - 2)
    ELSE UnsignedOf(Tail(x), 0)

\* take_bits::<_, i32, _, _>(len): the bits at the cursor
take_word(len, c) ==
    IF remaining_bits(c) < len THEN Fail
    ELSE Done([c EXCEPT !.pos = @ + len],
              ZeroExtend([i \in 1..len |-> BitAt(c.buf, c.pos + i - 1)]))

\* parsers::signed_i32: [ok, rest, val], a failure of take_bits, or a panic
signed_i32(input, len) ==
    IF len > I32Bits THEN [ok |-> FALSE, panic |-> TRUE]
    ELSE Try(take_word(len, input), LAMBDA num :
         Let(shl_i32(AllOnes, len), LAMBDA mask :
         Let(shl_i32(num.val, I32Bits - len), LAMBDA top :
             IF mask.panic \/ top.panic THEN [ok |-> FALSE, panic |-> TRUE]
             ELSE IF NoLeadingZeros(top.val)
             THEN Done(num.rest, I32Value(OrWord(num.val, mask.val)))
             ELSE Done(num.rest,
                       I32Value(AndWord(NotWord(mask.val), num.val))))))

\* widths up to which every bit pattern is given to signed_i32
SmallWidth == 6

\* every sequence of n bits
RECURSIVE AllPatterns(_)
AllPatterns(n) ==
    IF n = 0 THEN {<<>>}
    ELSE {p \o <<b>> : p \in AllPatterns(n - 1), b \in {0, 1}}

\* patterns of n bits at the edges of the signed range: 0, 1, -1, the
\* largest, the smallest, and a mixed one
EdgePatterns(n) ==
    {[i \in 1..n |-> 0], [i \in 1..n |-> 1],
     [i \in 1..n |-> IF i = n THEN 1 ELSE 0],
     [i \in 1..n |-> IF i = 1 THEN 0 ELSE 1],
     [i \in 1..n |-> IF i = 1 THEN 1 ELSE 0],
     [i \in 1..n |-> i % 2]}

Patterns(n) == IF n <= SmallWidth THEN AllPatterns(n) ELSE EdgePatterns(n)

\* the bytes that hold a sequence of bits, padded with zero bits
RECURSIVE BytesOf(_)
BytesOf(bits) ==
    IF bits = <<>> THEN <<>>
    ELSE IF Len(bits) < 8 THEN BytesOf(bits \o <<0>>)
    ELSE <<UnsignedOf(SubSeq(bits, 1, 8), 0)>> \o BytesOf(SubSeq(bits, 9, Len(bits)))

\* a cursor that has `lead` bits behind it and the pattern in front
CursorAt(lead, bits) ==
    [buf |-> BytesOf([i \in 1..lead |-> 1] \o bits), pos |-> lead]

\* a call of signed_i32
SignedI32 ==
    /\ Idle
    /\ \E len \in 1..I32Bits, lead \in {0, 3} :
          \E bits \in Patterns(len) :
              Returns([fn |-> "signed_i32", len |-> len, bits |-> bits,
                       lead |-> lead],
                      signed_i32(CursorAt(lead, bits), len))

SignedNext == SignedI32 \/ Forget

SignedSpec == Init /\ [][SignedNext]_vars

\* the two's-complement value of a pattern of w bits: the unsigned value,
\* less 2^w when the most significant bit is 1
TwosComplement(bits) ==
    IF Len(bits) = 1 THEN -bits[1]
    ELSE IF bits[1] = 1
    THEN (UnsignedOf(Tail(bits), 0) - 2 ^ (Len(bits) - 2)) - 2 ^ (Len(bits) - 2)
    ELSE UnsignedOf(bits, 0)

\* C14: for every width w in 1..32 and every w-bit pattern, signed_i32
\* returns the two's-complement value of the pattern.
SignedExtraction ==
    call.fn = "signed_i32" =>
        /\ ret.ok
        /\ ret.val = TwosComplement(call.bits)

(***************************************************************************)
(* parsers::parse_6bit_ascii on sequences of 6-bit values.                 *)
(***************************************************************************)
MaxText == 4

\* 6-bit values: '@' (0), 'A' (1), ' ' (32), '?' (63)
TextValues == {0, 1, 32, 63}

\* the sequences of n values
RECURSIVE TextsOfLen(_)
TextsOfLen(n) ==
    IF n = 0 THEN {<<>>}
    ELSE {p \o <<v>> : p \in TextsOfLen(n - 1), v \in TextValues}

Texts == UNION {TextsOfLen(n) : n \in 0..MaxText}

\* the six bits of a value, most significant first
SixBits(v) == [i \in 1..6 |-> (v \div (2 ^ (6 - i))) % 2]

\* the bits of a sequence of 6-bit values
RECURSIVE TextBits(_)
TextBits(values) ==
    IF values = <<>> THEN <<>>
    ELSE SixBits(Head(values)) \o TextBits(Tail(values))

\* a call of parse_6bit_ascii with the size of the whole text
Parse6BitAscii ==
    /\ Idle
    /\ \E values \in Texts, lead \in {0, 2} :
          Returns([fn |-> "parse_6bit_ascii", values |-> values,
                   lead |-> lead],
                  parse_6bit_ascii(CursorAt(lead, TextBits(values)),
                                   6 * Len(values)))

TextNext == Parse6BitAscii \/ Forget

TextSpec == Init /\ [][TextNext]_vars

\* C15: for every sequence of 6-bit values, the string parse_6bit_ascii
\* returns has no leading space, no trailing '@' and no trailing space.
TextTrimmed ==
    call.fn = "parse_6bit_ascii" =>
        /\ ret.ok
        /\ ret.val # <<>> =>
               /\ Head(ret.val) # 32
               /\ ret.val[Len(ret.val)] \notin {32, 64}

(***************************************************************************)
(* The date and time field parsers of parsers.rs, each on every raw value  *)
(* of its field.                                                           *)
(***************************************************************************)
\* parsers::parse_year
parse_year(input) ==
    Try(take_bits(14, input), LAMBDA r :
        Done(r.rest, IF r.val = 0 THEN None ELSE Some(r.val)))

\* parsers::parse_month
parse_month(input) ==
    Try(take_bits(4, input), LAMBDA r :
        Done(r.rest, IF r.val = 0 THEN None ELSE Some(r.val)))

\* parsers::parse_day
parse_day(input) ==
    Try(take_bits(5, input), LAMBDA r :
        Done(r.rest, IF r.val = 0 THEN None ELSE Some(r.val)))

\* parsers::parse_hour: the five bits as a u8
parse_hour(input) == take_bits(5, input)

\* parsers::parse_minsec
parse_minsec(input) ==
    Try(take_bits(6, input), LAMBDA r :
        Done(r.rest, IF r.val = 60 THEN None ELSE Some(r.val)))

\* the n bits of a raw value, most significant first
BitsOf(n, raw) == [i \in 1..n |-> (raw \div (2 ^ (n - i))) % 2]

\* the widths of the fields
YearBits == 14

MonthBits == 4

DayBits == 5

HourBits == 5

MinsecBits == 6

\* the bits consumed before the field in the callers
Leads == {0, 6}

\* a call of a field parser: the call records the field, its width, the raw
\* value and the type the parser returns
FieldCall(field, width, raw, lead, returns) ==
    [fn |-> "date", field |-> field, width |-> width, raw |-> raw,
     lead |-> lead, returns |-> returns]

ParseYear ==
    /\ Idle
    /\ \E raw \in 0..(2 ^ YearBits - 1), lead \in Leads :
          Returns(FieldCall("year", YearBits, raw, lead, "Option"),
                  parse_year(CursorAt(lead, BitsOf(YearBits, raw))))

ParseMonth ==
    /\ Idle
    /\ \E raw \in 0..(2 ^ MonthBits - 1), lead \in Leads :
          Returns(FieldCall("month", MonthBits, raw, lead, "Option"),
                  parse_month(CursorAt(lead, BitsOf(MonthBits, raw))))

ParseDay ==
    /\ Idle
    /\ \E raw \in 0..(2 ^ DayBits - 1), lead \in Leads :
          Returns(FieldCall("day", DayBits, raw, lead, "Option"),
                  parse_day(CursorAt(lead, BitsOf(DayBits, raw))))

ParseHour ==
    /\ Idle
    /\ \E raw \in 0..(2 ^ HourBits - 1), lead \in Leads :
          Returns(FieldCall("hour", HourBits, raw, lead, "u8"),
                  parse_hour(CursorAt(lead, BitsOf(HourBits, raw))))

ParseMinsec ==
    /\ Idle
    /\ \E raw \in 0..(2 ^ MinsecBits - 1), lead \in Leads :
          Returns(FieldCall("minsec", MinsecBits, raw, lead, "Option"),
                  parse_minsec(CursorAt(lead, BitsOf(MinsecBits, raw))))

DateNext ==
    \/ ParseYear
    \/ ParseMonth
    \/ ParseDay
    \/ ParseHour
    \/ ParseMinsec
    \/ Forget

DateSpec == Init /\ [][DateNext]_vars

\* the raw value that stands for "not available" in a field
Sentinel(field) ==
    CASE field = "hour" -> 24
      [] field = "minsec" -> 60
      [] OTHER -> 0

\* C16: every field parser returns the absent value for the sentinel of its
\* field (year 0, month 0, day 0, hour 24, minute/second 60) and a present
\* value equal to the raw value for every other raw value, without an error.
DateSentinels ==
    call.fn = "date" =>
        /\ ret.ok
        /\ call.returns = "Option"
        /\ ret.val = IF call.raw = Sentinel(call.field) THEN None
                     ELSE Some(call.raw)

(***************************************************************************)
(* The navigation field parsers of navigation.rs on raw field values.      *)
(***************************************************************************)
\* Result<T>: Ok(v) and Err(message)
Ok(v) == [ok |-> TRUE, val |-> v]

Err(message) == [ok |-> FALSE, err |-> message]

\* `data as f32 / 600_000.0`: the quotient, kept as its two operands
Degrees(raw) == [raw |-> raw, per_degree |-> 600000]

\* navigation::parse_longitude
parse_longitude(input) ==
    IF input >= -108000000 /\ input <= 108000000 THEN Ok(Some(Degrees(input)))
    ELSE IF input = 108600000 THEN Ok(None)
    ELSE Err("Invalid longitude")

\* navigation::parse_latitude
parse_latitude(input) ==
    IF input >= -54000000 /\ input <= 54000000 THEN Ok(Some(Degrees(input)))
    ELSE IF input = 54600000 THEN Ok(None)
    ELSE Err("Invalid latitude")

\* navigation::parse_heading
parse_heading(input) ==
    IF input >= 0 /\ input <= 359 THEN Ok(Some(input))
    ELSE IF input = 511 THEN Ok(None)
    ELSE Err("Invalid heading")

\* the widths of the fields the callers read
HeadingBits == 9

LongitudeBits == 28

LatitudeBits == 27

\* how far around a value of interest the raw values are taken
Window == 3

\* the values of a signed field of w bits that lie within Window of one of
\* the values of interest
SignedRaws(w, interest) ==
    {v \in UNION {(i - Window)..(i + Window) : i \in interest} :
        v >= -(2 ^ (w - 1)) /\ v <= 2 ^ (w - 1) - 1}

\* raw longitudes: around 0, +-180 degrees, the sentinel (181 degrees) and
\* the ends of the i28 range
LongitudeRaws ==
    SignedRaws(LongitudeBits,
               {0, 108000000, -108000000, 108600000,
                2 ^ (LongitudeBits - 1) - 1, -(2 ^ (LongitudeBits - 1))})

\* raw latitudes: around 0, +-90 degrees, the sentinel (91 degrees) and the
\* ends of the i27 range
LatitudeRaws ==
    SignedRaws(LatitudeBits,
               {0, 54000000, -54000000, 54600000,
                2 ^ (LatitudeBits - 1) - 1, -(2 ^ (LatitudeBits - 1))})

NavigationCall(field, raw) == [fn |-> "navigation", field |-> field, raw |-> raw]

ParseLongitude ==
    /\ Idle
    /\ \E raw \in LongitudeRaws :
          Returns(NavigationCall("longitude", raw), parse_longitude(raw))

ParseLatitude ==
    /\ Idle
    /\ \E raw \in LatitudeRaws :
          Returns(NavigationCall("latitude", raw), parse_latitude(raw))

ParseHeading ==
    /\ Idle
    /\ \E raw \in 0..(2 ^ HeadingBits - 1) :
          Returns(NavigationCall("heading", raw), parse_heading(raw))

NavigationNext ==
    \/ ParseLongitude
    \/ ParseLatitude
    \/ ParseHeading
    \/ Forget

NavigationSpec == Init /\ [][NavigationNext]_vars

\* the raw value that stands for "not available" in a navigation field
NotAvailable(field) ==
    CASE field = "heading" -> 511
      [] field = "longitude" -> 108600000
      [] field = "latitude" -> 54600000

\* C17: every raw value of true heading, longitude and latitude other than
\* the field's sentinel is decoded as a present value and never as an error;
\* the heading is Some(raw).
NavigationPresent ==
    (call.fn = "navigation" /\ call.raw # NotAvailable(call.field)) =>
        /\ ret.ok
        /\ ret.val # None
        /\ call.field = "heading" => ret.val = Some(call.raw)

(***************************************************************************)
(* The communication state of radio_status.rs: the SOTDMA and ITDMA        *)
(* parsers and the selector parse_radio.                                   *)
(***************************************************************************)
\* radio_status::SyncState::parse
SyncState_parse(input) ==
    CASE input = 0 -> Ok("UtcDirect")
      [] input = 1 -> Ok("UtcIndirect")
      [] input = 2 -> Ok("BaseStation")
      [] input = 3 -> Ok("NumberOfReceivedStations")
      [] OTHER -> Err("Unknown sync state")

\* map_res!(take_bits!(u8, 2), SyncState::parse)
sync_state(input) ==
    Try(take_bits(2, input), LAMBDA r :
    Try(SyncState_parse(r.val), LAMBDA s : Done(r.rest, s.val)))

\* radio_status::SubMessage::utc_hour_and_minute
utc_hour_and_minute(input) ==
    Try(take_bits(5, input), LAMBDA h :
    Try(take_bits(1, h.rest), LAMBDA s1 :
    Try(take_bits(6, s1.rest), LAMBDA m :
    Try(take_bits(2, m.rest), LAMBDA s2 :
        Done(s2.rest, <<h.val, m.val>>)))))

\* radio_status::SubMessage::slot_offset
slot_offset(input) == take_bits(14, input)

\* radio_status::SubMessage::subm_u16
subm_u16(input) == take_bits(14, input)

\* SubMessage::parse with the arms of 2 | 4 | 6 and 3 | 5 | 7 exchanged
SubMessage_parse_exchanged(input, slot_timeout) ==
    CASE slot_timeout = 0 ->
           Try(slot_offset(input), LAMBDA r :
               Done(r.rest, [variant |-> "SlotOffset", value |-> r.val]))
      [] slot_timeout = 1 ->
           Try(utc_hour_and_minute(input), LAMBDA r :
               Done(r.rest, [variant |-> "UtcHourAndMinute",
                             hour |-> r.val[1], minute |-> r.val[2]]))
      [] slot_timeout \in {3, 5, 7} ->
           Try(subm_u16(input), LAMBDA r :
               Done(r.rest, [variant |-> "SlotNumber", value |-> r.val]))
      [] slot_timeout \in {2, 4, 6} ->
           Try(subm_u16(input), LAMBDA r :
               Done(r.rest, [variant |-> "ReceivedStations", value |-> r.val]))
      [] OTHER -> [ok |-> FALSE, panic |-> TRUE]

\* radio_status::SubMessage::parse
SubMessage_parse(input, slot_timeout) ==
    CASE slot_timeout = 0 ->
           Try(slot_offset(input), LAMBDA r :
               Done(r.rest, [variant |-> "SlotOffset", value |-> r.val]))
      [] slot_timeout = 1 ->
           Try(utc_hour_and_minute(input), LAMBDA r :
               Done(r.rest, [variant |-> "UtcHourAndMinute",
                             hour |-> r.val[1], minute |-> r.val[2]]))
      [] slot_timeout \in {2, 4, 6} ->
           Try(subm_u16(input), LAMBDA r :
               Done(r.rest, [variant |-> "SlotNumber", value |-> r.val]))
      [] slot_timeout \in {3, 5, 7} ->
           Try(subm_u16(input), LAMBDA r :
               Done(r.rest, [variant |-> "ReceivedStations", value |-> r.val]))
      [] OTHER -> [ok |-> FALSE, panic |-> TRUE]

\* radio_status::SotdmaMessage::parser
SotdmaMessage_parser(input) ==
    Try(sync_state(input), LAMBDA sync :
    Try(take_bits(3, sync.rest), LAMBDA slot_timeout :
    Try(SubMessage_parse(slot_timeout.rest, slot_timeout.val), LAMBDA sub :
        Done(sub.rest, [variant |-> "Sotdma", sync_state |-> sync.val,
                        slot_timeout |-> slot_timeout.val,
                        sub_message |-> sub.val]))))

\* radio_status::ItdmaMessage::parser
ItdmaMessage_parser(input) ==
    Try(sync_state(input), LAMBDA sync :
    Try(take_bits(13, sync.rest), LAMBDA slot_increment :
    Try(take_bits(3, slot_increment.rest), LAMBDA num_slots :
    Try(take_bits(1, num_slots.rest), LAMBDA keep :
        Done(keep.rest, [variant |-> "Itdma", sync_state |-> sync.val,
                         slot_increment |-> slot_increment.val,
                         num_slots |-> num_slots.val,
                         keep |-> keep.val # 0])))))

\* radio_status::parse_radio
parse_radio(input, msg_type) ==
    CASE msg_type \in {1, 2, 4} -> SotdmaMessage_parser(input)
      [] msg_type = 3 -> ItdmaMessage_parser(input)
      [] OTHER -> [ok |-> FALSE, err |-> "Digit"]

\* the width of a communication state
RadioBits == 19

\* communication states: every sync state and slot timeout in front of the
\* edge patterns of the last 14 bits
RadioPatterns ==
    {BitsOf(2, sync) \o BitsOf(3, timeout) \o low :
        sync \in 0..3, timeout \in 0..7, low \in EdgePatterns(14)}

\* a buffer with `lead` bits behind the cursor and the pattern in front, less
\* its last `cut` bytes
RadioCursor(lead, bits, cut) ==
    [buf |-> SubSeq(CursorAt(lead, bits).buf, 1,
                    Len(CursorAt(lead, bits).buf) - cut),
     pos |-> lead]

\* the bits in front of the status in the callers, and the bytes cut off
RadioLeads == {0, 5}

RadioCuts == {0, 1}

RadioCall(fn, lead, bits, cut) ==
    [fn |-> fn, lead |-> lead, bits |-> bits, cut |-> cut,
     remaining |-> remaining_bits(RadioCursor(lead, bits, cut))]

Sotdma ==
    /\ Idle
    /\ \E bits \in RadioPatterns, lead \in RadioLeads, cut \in RadioCuts :
          Returns(RadioCall("SotdmaMessage::parser", lead, bits, cut),
                  SotdmaMessage_parser(RadioCursor(lead, bits, cut)))

Itdma ==
    /\ Idle
    /\ \E bits \in RadioPatterns, lead \in RadioLeads, cut \in RadioCuts :
          Returns(RadioCall("ItdmaMessage::parser", lead, bits, cut),
                  ItdmaMessage_parser(RadioCursor(lead, bits, cut)))

RadioNext == Sotdma \/ Itdma \/ Forget

RadioSpec == Init /\ [][RadioNext]_vars

\* the bits a parser has consumed when it returns
Consumed == ret.rest.pos - call.lead

\* the slot timeout of the pattern given to the parser
SlotTimeoutOf(bits) == 4 * bits[3] + 2 * bits[4] + bits[5]

\* the variant the slot timeout selects
VariantOf(slot_timeout) ==
    CASE slot_timeout = 0 -> "SlotOffset"
      [] slot_timeout = 1 -> "UtcHourAndMinute"
      [] slot_timeout \in {2, 4, 6} -> "SlotNumber"
      [] slot_timeout \in {3, 5, 7} -> "ReceivedStations"

\* C18: the SOTDMA parser returns a status for every input of at least 19
\* bits, whatever its slot timeout, with the sub-message variant that the
\* slot timeout selects (0 SlotOffset, 1 UtcHourAndMinute, 2/4/6 SlotNumber,
\* 3/5/7 ReceivedStations); the SOTDMA and the ITDMA parser consume exactly
\* 19 bits whenever they return a status, and fail on a shorter input.
SubMessageTotal ==
    call.fn \in {"SotdmaMessage::parser", "ItdmaMessage::parser"} =>
        /\ ret.ok <=> call.remaining >= RadioBits
        /\ ret.ok => Consumed = RadioBits
        /\ (ret.ok /\ call.fn = "SotdmaMessage::parser") =>
               /\ ret.val.slot_timeout = SlotTimeoutOf(call.bits)
               /\ ret.val.sub_message.variant = VariantOf(SlotTimeoutOf(call.bits))

\* a SOTDMA status with slot timeout 1 was parsed from 19 bits that follow
\* 5 bits of other fields
SubMessageTotalWitness ==
    /\ call.fn = "SotdmaMessage::parser"
    /\ call.lead = 5
    /\ call.remaining = RadioBits
    /\ ret.ok
    /\ ret.val.sub_message.variant = "UtcHourAndMinute"
    /\ ret.rest.pos = 24

(***************************************************************************)
(* radio_status::parse_radio on every value of the 6-bit message type.     *)
(***************************************************************************)
\* the width of the message type
TypeBits == 6

ParseRadio ==
    /\ Idle
    /\ \E msg_type \in 0..(2 ^ TypeBits - 1), lead \in RadioLeads :
          \E bits \in RadioPatterns :
              Returns([fn |-> "parse_radio", msg_type |-> msg_type,
                       lead |-> lead, bits |-> bits],
                      parse_radio(RadioCursor(lead, bits, 0), msg_type))

SelectorNext == ParseRadio \/ Forget

SelectorSpec == Init /\ [][SelectorNext]_vars

\* C20: on 19 bits of communication state parse_radio returns a SOTDMA
\* status for the message types 1, 2, 4, 9 and 11 and an ITDMA status for
\* type 3, without an error.
RadioSelector ==
    (call.fn = "parse_radio" /\ call.msg_type \in {1, 2, 3, 4, 9, 11}) =>
        /\ ret.ok
        /\ ret.val.variant = IF call.msg_type = 3 THEN "Itdma" ELSE "Sotdma"

(***************************************************************************)
(* static_and_voyage_related_data.rs: the type-5 decoder on whole and on   *)
(* truncated bitstreams.                                                   *)
(***************************************************************************)
\* common::EpfdType::parse: the variant is kept as its code
EpfdType_parse(input) ==
    IF input = 0 \/ input = 15 THEN Ok(None)
    ELSE IF input >= 1 /\ input <= 8 THEN Ok(Some(input))
    ELSE Err("Unknown Epfd type")

\* static_and_voyage_related_data::ShipType::parse: the variant is kept as
\* its code; every u8 has an arm that returns Ok
ShipType_parse(input) ==
    IF input = 0 \/ input > 99 THEN Ok(None) ELSE Ok(Some(input))

\* common::parse_month
common_parse_month(input) ==
    Try(take_bits(4, input), LAMBDA r :
        IF r.val = 0 THEN Done(r.rest, None)
        ELSE IF r.val <= 12 THEN Done(r.rest, Some(r.val))
        ELSE Err("Invalid month"))

\* common::parse_day
common_parse_day(input) ==
    Try(take_bits(5, input), LAMBDA r :
        IF r.val = 0 THEN Done(r.rest, None) ELSE Done(r.rest, Some(r.val)))

\* common::parse_hour
common_parse_hour(input) ==
    Try(take_bits(5, input), LAMBDA r :
        IF r.val <= 23 THEN Done(r.rest, Some(r.val))
        ELSE IF r.val = 24 THEN Done(r.rest, None)
        ELSE Err("Invalid hour"))

\* common::parse_minsec
common_parse_minsec(input) ==
    Try(take_bits(6, input), LAMBDA r :
        IF r.val <= 59 THEN Done(r.rest, Some(r.val))
        ELSE IF r.val = 60 THEN Done(r.rest, None)
        ELSE Err("Invalid minute/second"))

\* impl From<u8> for Dte
Dte_from(value) == IF value = 0 THEN "Ready" ELSE "NotReady"

\* impl Default for Dte
Dte_default == "NotReady"

\* `data.0.is_empty()`: nom's bit input holds the bytes from the one the
\* cursor is in, so it is empty when every byte has been consumed
is_empty(c) == c.pos \div 8 >= Len(c.buf)

\* the DTE of parse_base: a bit if a byte is left, the default otherwise
dte(c) ==
    IF ~is_empty(c)
    THEN TryBits(take_bits(1, c), LAMBDA r : Done(r.rest, Dte_from(r.val)))
    ELSE Done(c, Dte_default)

\* the size of the destination field
DestinationBits == 120

Min(a, b) == IF a <= b THEN a ELSE b

\* the parser calls of static_and_voyage_related_data::parse_base, in order:
\* the field each one fills, the parser, and its size in bits where it has one
parse_base_fields ==
    <<[field |-> "message_type", parser |-> "take_bits", size |-> 6],
      [field |-> "repeat_indicator", parser |-> "take_bits", size |-> 2],
      [field |-> "mmsi", parser |-> "take_bits", size |-> 30],
      [field |-> "ais_version", parser |-> "take_bits", size |-> 2],
      [field |-> "imo_number", parser |-> "take_bits", size |-> 30],
      [field |-> "callsign", parser |-> "parse_6bit_ascii", size |-> 42],
      [field |-> "vessel_name", parser |-> "parse_6bit_ascii", size |-> 120],
      [field |-> "ship_type", parser |-> "ShipType::parse", size |-> 8],
      [field |-> "dimension_to_bow", parser |-> "take_bits", size |-> 9],
      [field |-> "dimension_to_stern", parser |-> "take_bits", size |-> 9],
      [field |-> "dimension_to_port", parser |-> "take_bits", size |-> 6],
      [field |-> "dimension_to_starboard", parser |-> "take_bits", size |-> 6],
      [field |-> "epfd_type", parser |-> "EpfdType::parse", size |-> 4],
      [field |-> "eta_month_utc", parser |-> "parse_month", size |-> 4],
      [field |-> "eta_day_utc", parser |-> "parse_day", size |-> 5],
      [field |-> "eta_hour_utc", parser |-> "parse_hour", size |-> 5],
      [field |-> "eta_minute_utc", parser |-> "parse_minsec", size |-> 6],
      [field |-> "draught_tenths", parser |-> "take_bits", size |-> 8],
      [field |-> "destination", parser |-> "parse_6bit_ascii",
       size |-> DestinationBits],
      [field |-> "dte", parser |-> "dte", size |-> 1]>>

\* one parser call of parse_base on the cursor, with its `?`
parse_base_field(f, c) ==
    CASE f.parser = "take_bits" ->
           IF take_bits(f.size, c).ok THEN take_bits(f.size, c) ELSE Eof
      [] f.parser = "parse_6bit_ascii" ->
           IF parse_6bit_ascii(c, Min(f.size, remaining_bits(c))).ok
           THEN parse_6bit_ascii(c, Min(f.size, remaining_bits(c)))
           ELSE Eof
      [] f.parser = "ShipType::parse" ->
           IF ~take_bits(f.size, c).ok THEN Eof
           ELSE IF ~ShipType_parse(take_bits(f.size, c).val).ok
           THEN ShipType_parse(take_bits(f.size, c).val)
           ELSE Done(take_bits(f.size, c).rest,
                     ShipType_parse(take_bits(f.size, c).val).val)
      [] f.parser = "EpfdType::parse" ->
           IF ~take_bits(f.size, c).ok THEN Eof
           ELSE IF ~EpfdType_parse(take_bits(f.size, c).val).ok
           THEN EpfdType_parse(take_bits(f.size, c).val)
           ELSE Done(take_bits(f.size, c).rest,
                     EpfdType_parse(take_bits(f.size, c).val).val)
      [] f.parser = "parse_month" -> common_parse_month(c)
      [] f.parser = "parse_day" -> common_parse_day(c)
      [] f.parser = "parse_hour" -> common_parse_hour(c)
      [] f.parser = "parse_minsec" -> common_parse_minsec(c)
      [] f.parser = "dte" -> dte(c)

\* the parser calls of parse_base from the i-th on; record holds the fields
\* read so far
RECURSIVE parse_base_from(_, _, _)
parse_base_from(c, i, record) ==
    IF i > Len(parse_base_fields) THEN [ok |-> TRUE, val |-> record]
    ELSE LET r == parse_base_field(parse_base_fields[i], c)
         IN IF ~r.ok THEN r
            ELSE parse_base_from(r.rest, i + 1,
                                 record @@ (parse_base_fields[i].field :> r.val))

\* static_and_voyage_related_data::parse_base
StaticAndVoyageRelatedData_parse(input) ==
    parse_base_from(Cursor(input), 1,
                    [variant |-> "StaticAndVoyageRelatedData"])

\* the payload of tests::test_type5_truncated,
\* 5341U9`00000uCGCKL0u=@T4000000000000001?<@<47u;b004Sm51DQ0C@, unarmored:
\* 60 characters, 360 bits, 45 bytes
TestType5Bitstream ==
    <<20, 49, 1, 148, 154, 0, 0, 0, 0, 245, 53, 211, 109, 192, 61, 53,
      9, 4, 0, 0, 0, 0, 0, 0, 0, 0, 0, 0, 0, 79, 49, 3, 4, 31, 210, 234,
      0, 1, 35, 212, 80, 84, 132, 4, 208>>

\* the bits of a buffer
BufferBits(buf) == [i \in 1..(8 * Len(buf)) |-> BitAt(buf, i - 1)]

\* the bits of the fields in front of the destination
HeadBits == 6 + 2 + 30 + 2 + 30 + 42 + 120 + 8 + 9 + 9 + 6 + 6 + 4 + 4 + 5 + 5 + 6 + 8

\* the position of the DTE bit, and the bytes of a whole type-5 message
DtePosition == HeadBits + DestinationBits

Type5Bytes == (DtePosition + 2) \div 8

\* the fields of the test payload in front of the destination
Type5Head == SubSeq(BufferBits(TestType5Bitstream), 1, HeadBits)

\* bytes supplied beyond a whole message
Slack == 1

\* the lengths of the bitstreams, from one that ends within the head to one
\* that is longer than the message
Type5Lengths == (HeadBits \div 8)..(Type5Bytes + Slack)

\* the bits behind the head repeat a pattern of three bits
TailFills == 0..7

TailBits(fill, n) == [i \in 1..n |-> BitsOf(3, fill)[((i - 1) % 3) + 1]]

\* bit i of a sequence of bits, 0 behind its end
PadBit(bits, i) == IF i <= Len(bits) THEN bits[i] ELSE 0

\* the bytes that hold a sequence of bits, most significant bit first
PackBits(bits) ==
    [k \in 1..((Len(bits) + 7) \div 8) |->
        128 * PadBit(bits, 8 * k - 7) + 64 * PadBit(bits, 8 * k - 6)
        + 32 * PadBit(bits, 8 * k - 5) + 16 * PadBit(bits, 8 * k - 4)
        + 8 * PadBit(bits, 8 * k - 3) + 4 * PadBit(bits, 8 * k - 2)
        + 2 * PadBit(bits, 8 * k - 1) + PadBit(bits, 8 * k)]

\* a bitstream of `bytes` bytes: the head, then the fill
Type5Stream(bytes, fill) ==
    PackBits(SubSeq(Type5Head \o TailBits(fill, 8 * (Type5Bytes + Slack)),
                    1, 8 * bytes))

Type5Streams ==
    {TestType5Bitstream}
        \cup {Type5Stream(bytes, fill) : bytes \in Type5Lengths, fill \in TailFills}

ParseType5 ==
    /\ Idle
    /\ \E input \in Type5Streams :
          Returns([fn |-> "StaticAndVoyageRelatedData::parse", input |-> input],
                  StaticAndVoyageRelatedData_parse(input))

Type5Next == ParseType5 \/ Forget

Type5Spec == Init /\ [][Type5Next]_vars

\* the bits supplied behind the head
BehindHead == 8 * Len(call.input) - HeadBits

\* the bitstream holds the DTE bit
DtePresent == 8 * Len(call.input) > DtePosition

\* C19: a type-5 bitstream that holds the fields in front of the destination
\* but ends before the DTE bit is decoded to a record whose DTE is NotReady;
\* the DTE of a record is Ready only if the bitstream holds the DTE bit and
\* the bit is 0.
Type5Truncation ==
    call.fn = "StaticAndVoyageRelatedData::parse" =>
        /\ (BehindHead >= 0 /\ ~DtePresent) =>
               (ret.ok /\ ret.val.dte = "NotReady")
        /\ (ret.ok /\ ret.val.dte = "Ready") =>
               (DtePresent /\ BitAt(call.input, DtePosition) = 0)

(***************************************************************************)
(* Further properties of AisParser::parse.                                 *)
(***************************************************************************)
\* C23: in every reachable state the reassembly buffer is no longer than the
\* sum of the payload lengths of the fragments accepted since the most
\* recent index-1 fragment, and it is empty after every Complete result of
\* a multi-fragment group.
BoundedBuffer ==
    /\ Len(data) <= accepted_bytes
    /\ (pc = "returned" /\ result.kind = "Complete"
        /\ result.sentence.num_fragments # 1) => data = <<>>

\* the second fragment of three is in the buffer behind the first
BoundedBufferWitness ==
    /\ pc = "returned"
    /\ result.kind = "Incomplete"
    /\ result.sentence.fragment_number = 2
    /\ Len(data) = 2 * Len(PayloadShort)
    /\ accepted_bytes = Len(data)

\* C24: in every state of the parser a valid sentence with fragment-count 1
\* that the message layer accepts returns Complete with its own payload, and
\* the recorded group id, the last index and the accumulated bytes are what
\* they were before the call.
SingleBypasses ==
    [][(/\ pc = "ready"
        /\ Valid'
        /\ Sentence'.num_fragments = 1
        /\ decode' => Decoded[<<Sentence'.data, Sentence'.fill_bit_count>>].ok)
       => /\ result'.kind = "Complete"
          /\ result'.sentence.data = Sentence'.data
          /\ message_id' = message_id
          /\ fragment_number' = fragment_number
          /\ data' = data]_vars

\* C25: while a group is being fed in index order, a fragment of the same
\* group id whose fragment-count differs from the count the group's index-1
\* fragment declared is not accepted: the call returns neither Incomplete
\* nor Complete.
SameCount ==
    [][(/\ pc = "ready"
        /\ group.count > 1
        /\ group.payloads # <<>>
        /\ Len(group.payloads) < group.count
        /\ Valid'
        /\ is_fragment(Sentence')
        /\ Sentence'.fragment_number >= 2
        /\ Sentence'.message_id = group.id
        /\ Sentence'.num_fragments # group.count)
       => result'.kind \notin {"Incomplete", "Complete"}]_vars

\* C26: in every state, a fragment with index >= 2 whose index is less than
\* or equal to the stored last index is answered with a fragment-sequence
\* error, the call does not abort, and the group id, the last index and the
\* buffer are left as they were.
OutOfOrderIsError ==
    [][(/\ pc = "ready"
        /\ Valid'
        /\ Sentence'.num_fragments > 1
        /\ Sentence'.fragment_number >= 2
        /\ Sentence'.fragment_number <= fragment_number)
       => /\ pc' = "returned"
          /\ FragmentSequenceError(result')
          /\ message_id' = message_id
          /\ fragment_number' = fragment_number
          /\ data' = data]_vars

\* C27: when the final fragment of a group passes the sequence checks and
\* the message layer then returns an error, the call returns that error
\* with the buffer emptied and the last index advanced to the fragment's;
\* and a final fragment of the recorded group id that carries the recorded
\* last index, as the same fragment does when it is presented again after
\* the error, is rejected as out of sequence.
FinalFragmentLost ==
    [][/\ (/\ pc = "ready"
           /\ data # <<>>
           /\ Valid'
           /\ is_fragment(Sentence')
           /\ ~has_more(Sentence')
           /\ Sentence'.message_id = message_id
           /\ Sentence'.fragment_number = fragment_number + 1
           /\ decode'
           /\ ~Decoded[<<data \o Sentence'.data, Sentence'.fill_bit_count>>].ok)
          => /\ pc' = "returned"
             /\ PayloadError(result')
             /\ data' = <<>>
             /\ fragment_number' = Sentence'.fragment_number
             /\ message_id' = message_id
       /\ (/\ pc = "ready"
           /\ after_error
           /\ data = <<>>
           /\ Valid'
           /\ is_fragment(Sentence')
           /\ ~has_more(Sentence')
           /\ Sentence'.message_id = message_id
           /\ Sentence'.fragment_number = fragment_number)
          => /\ pc' = "returned"
             /\ result' = Nmea("Fragment numbers out of sequence")
             /\ data' = <<>>
             /\ fragment_number' = fragment_number]_vars

\* the message layer refused a group of two fragments on its final fragment:
\* the buffer is empty and the last index is the fragment's
FinalFragmentLostWitness ==
    /\ pc = "returned"
    /\ interrupted
    /\ decode
    /\ Valid
    /\ Sentence.num_fragments = 2
    /\ Sentence.fragment_number = 2
    /\ result = Nmea("Value out of range")
    /\ data = <<>>
    /\ fragment_number = 2

\* the line has a start character
HasStart(l) == \E i \in 1..Len(l) : l[i] \in {33, 36}

\* the positions of the commas behind the start character
CommasOf(l) == {i \in (StartOf(l) + 1)..Len(l) : l[i] = 44}

\* the position of the n-th comma
CommaOf(l, n) ==
    CHOOSE i \in CommasOf(l) : Cardinality({j \in CommasOf(l) : j < i}) = n - 1

\* the payload field of a line: the bytes between its fifth and sixth comma
PayloadOf(l) == SubSeq(l, CommaOf(l, 5) + 1, CommaOf(l, 6) - 1)

\* the payload field of every line that has one, tabulated once
Payloads ==
    [l \in {x \in Lines : HasStart(x) /\ Cardinality(CommasOf(x)) >= 6} |->
        PayloadOf(l)] @@ <<>>

\* C30: the message_type of every sentence the framer accepts is the first
\* byte of the armored payload field divided by 4 (17 for a payload that
\* starts with 'F' or 'E'), and a line whose payload field is empty is not
\* accepted: parse returns the parsing error.
MessageTypeArmored ==
    (Called /\ line \in DOMAIN Payloads) =>
        IF Payloads[line] = <<>>
        THEN ~Framed[line].ok /\ result = Nmea("Parsing Error")
        ELSE Framed[line].ok =>
                /\ Sentence.data = Payloads[line]
                /\ Sentence.message_type = Payloads[line][1] \div 4

\* a sentence whose payload starts with 'F' was returned with message type
\* 17; the byte is armor for 22
MessageTypeArmoredWitness ==
    /\ pc = "returned"
    /\ result.kind = "Complete"
    /\ result.sentence.data = PayloadUnimplemented
    /\ result.sentence.message_type = 17
    /\ ArmorValue(PayloadUnimplemented[1]) = 22

(***************************************************************************)
(* Totality of messages::unarmor.                                          *)
(***************************************************************************)
\* the call ended in a panic: an index outside the output buffer, or an
\* index computation below zero
Panicked(r) == ~r.ok /\ "panic" \in DOMAIN r

\* C28: for every armored byte string, the empty one included, and every
\* fill count in 0..5, unarmor returns a buffer or the armor-out-of-range
\* error; it never panics on byte_count - 1, final_idx - 1 or an index.
UnarmorTotal ==
    Unarmored =>
        /\ ~Panicked(ret)
        /\ \/ ret.ok
           \/ ret = [ok |-> FALSE, err |-> Nmea("Value out of range")]

(***************************************************************************)
(* TagBlock::parse (messages/tag_block.rs).  A &str is the sequence of its *)
(* UTF-8 bytes; a TagBlock is the record of its fields.                    *)
(***************************************************************************)
\* str::trim_matches(ch): every leading and every trailing ch is removed
trim_matches(s, ch) == trim_end_matches(Drop(s, PrefixLen(s, {ch}, 1)), ch)

\* str::str_split(ch).collect(): the pieces between the separators, one more
\* than there are separators
RECURSIVE str_split(_, _)
str_split(s, ch) ==
    LET i == IndexFrom(s, ch, 1)
    IN IF i = 0 THEN <<s>>
       ELSE <<SubSeq(s, 1, i - 1)>> \o str_split(Drop(s, i), ch)

\* the digits of from_str_radix and str::parse: a leading '+' is dropped
\* unless it is the whole string
unsigned_digits(s) == IF Len(s) > 1 /\ s[1] = 43 THEN Tail(s) ELSE s

\* u8::from_str_radix(s, 16) on a string of two bytes
u8_from_str_radix_16(s) ==
    LET digits == unsigned_digits(s)
    IN IF digits = <<>> \/ \E i \in 1..Len(digits) : digits[i] \notin HexDigits
       THEN Err("InvalidDigit")
       ELSE Ok(HexValue(digits, 0))

\* value.parse().ok() for u64 and u32; the values of the inputs stay below
\* both widths
parse_ok(value) ==
    LET digits == unsigned_digits(value)
    IN IF digits = <<>> \/ \E i \in 1..Len(digits) : digits[i] \notin Digits
       THEN None
       ELSE Some(DecValue(digits, 0))

\* str::split_at(mid): panics when mid is not on a character boundary
split_at(s, mid) ==
    IF mid > Len(s) \/ (mid < Len(s) /\ s[mid + 1] \in 128..191)
    THEN [ok |-> FALSE, panic |-> TRUE]
    ELSE Ok(<<Take(s, mid), Drop(s, mid)>>)

\* calculate_checksum
calculate_checksum(input) == fold_xor(input, 0)

\* the tag block before the key-value pairs are read
TagBlock_new(provided_checksum) ==
    [receiver_timestamp |-> None, destination_station |-> None,
     line_count |-> None, relative_time |-> None, source_station |-> None,
     text |-> None, checksum |-> provided_checksum]

\* the match on the key: "c:", "d:", "n:", "r:", "s:", "t:", and the rest
TagBlock_set(block, key, value) ==
    IF key = <<99, 58>>
    THEN [block EXCEPT !.receiver_timestamp = parse_ok(value)]
    ELSE IF key = <<100, 58>>
    THEN [block EXCEPT !.destination_station = Some(value)]
    ELSE IF key = <<110, 58>>
    THEN [block EXCEPT !.line_count = parse_ok(value)]
    ELSE IF key = <<114, 58>>
    THEN [block EXCEPT !.relative_time = parse_ok(value)]
    ELSE IF key = <<115, 58>>
    THEN [block EXCEPT !.source_station = Some(value)]
    ELSE IF key = <<116, 58>>
    THEN [block EXCEPT !.text = Some(value)]
    ELSE block

\* the loop over key_value_part.str_split(','), from pair i on
RECURSIVE parse_key_values(_, _, _)
parse_key_values(kvs, i, block) ==
    IF i > Len(kvs) THEN Ok(Some(block))
    ELSE IF Len(kvs[i]) < 3 THEN parse_key_values(kvs, i + 1, block)
    ELSE LET parts == split_at(kvs[i], 2)
         IN IF ~parts.ok THEN parts
            ELSE parse_key_values(kvs, i + 1,
                     TagBlock_set(block, parts.val[1], parts.val[2]))

\* TagBlock::parse: Ok(Some(block)), Err(message), or a panic
TagBlock_parse(input) ==
    LET trimmed == trim_matches(input, 92)
        parts == str_split(trimmed, 42)
        key_value_part == parts[1]
        checksum_str == parts[2]
        provided_checksum == u8_from_str_radix_16(checksum_str)
        calculated_checksum == calculate_checksum(key_value_part)
    IN IF Len(parts) # 2
       THEN Err("Invalid tag block format: missing checksum")
       ELSE IF Len(checksum_str) # 2
       THEN Err("Invalid checksum format: checksum should be 2 characters")
       ELSE IF ~provided_checksum.ok
       THEN Err("Invalid checksum format: checksum is not a valid hexadecimal number")
       ELSE IF calculated_checksum # provided_checksum.val
       THEN Err([message |-> "Checksum mismatch",
                 calculated |-> calculated_checksum,
                 expected |-> provided_checksum.val])
       ELSE parse_key_values(str_split(key_value_part, 44), 1,
                             TagBlock_new(provided_checksum.val))

\* the most key-value pairs of a tag block of the model
MaxPairs == 2

\* a key-value pair as written: its bytes, the field its key names ("" for
\* none), and the value the field is to hold (None when the pair gives none)
Pair(text, field, holds) == [text |-> text, field |-> field, holds |-> holds]

\* "s:12", "c:34", "d:AB", "n:5", "r:6", "t:Hi", "s:7"; "x:zz" with an
\* unknown key; "n:x" with a value that is no number; "t:" with an empty
\* value; "a" and e-acute, where the third byte continues a character
Pairs ==
    {Pair(<<115, 58, 49, 50>>, "source_station", Some(<<49, 50>>)),
     Pair(<<99, 58, 51, 52>>, "receiver_timestamp", Some(34)),
     Pair(<<100, 58, 65, 66>>, "destination_station", Some(<<65, 66>>)),
     Pair(<<110, 58, 53>>, "line_count", Some(5)),
     Pair(<<114, 58, 54>>, "relative_time", Some(6)),
     Pair(<<116, 58, 72, 105>>, "text", Some(<<72, 105>>)),
     Pair(<<115, 58, 55>>, "source_station", Some(<<55>>)),
     Pair(<<120, 58, 122, 122>>, "", None),
     Pair(<<110, 58, 120>>, "line_count", None),
     Pair(<<116, 58>>, "text", None),
     Pair(<<97, 195, 169>>, "", None)}

\* the sequences of n pairs
RECURSIVE PairsOfLen(_)
PairsOfLen(n) ==
    IF n = 0 THEN {<<>>}
    ELSE {p \o <<x>> : p \in PairsOfLen(n - 1), x \in Pairs}

PairLists == UNION {PairsOfLen(n) : n \in 0..MaxPairs}

\* the pairs joined by commas
RECURSIVE JoinPairs(_)
JoinPairs(pairs) ==
    IF pairs = <<>> THEN <<>>
    ELSE IF Len(pairs) = 1 THEN pairs[1].text
    ELSE pairs[1].text \o <<44>> \o JoinPairs(Tail(pairs))

\* a tag block as a sender writes it: pairs, '*', two hex digits, with or
\* without the delimiting backslashes
Block(pairs, declared, delimited) ==
    LET body == JoinPairs(pairs) \o <<42>> \o Hex2(declared)
    IN IF delimited THEN <<92>> \o body \o <<92>> ELSE body

\* the checksums a sender declares: the right one and two wrong ones
DeclaredFor(pairs) ==
    LET right == ParityXor(JoinPairs(pairs))
    IN {right, (right + 1) % 256, 255 - right}

\* inputs that are no such block: "", "\", "\\", "invalid", "s:12*4A*4A",
\* "\s:12*GG\", "\s:12*4\", "\s:12*04A\", "\*+0\", "\s:12*4a\"
OtherBlocks ==
    {<<>>, <<92>>, <<92, 92>>,
     <<105, 110, 118, 97, 108, 105, 100>>,
     <<115, 58, 49, 50, 42, 52, 65, 42, 52, 65>>,
     <<92, 115, 58, 49, 50, 42, 71, 71, 92>>,
     <<92, 115, 58, 49, 50, 42, 52, 92>>,
     <<92, 115, 58, 49, 50, 42, 48, 52, 65, 92>>,
     <<92, 42, 43, 48, 92>>,
     <<92, 115, 58, 49, 50, 42, 52, 97, 92>>}

\* a call of TagBlock::parse on a written block
ParseBlock ==
    /\ Idle
    /\ \E pairs \in PairLists, delimited \in BOOLEAN :
          \E declared \in DeclaredFor(pairs) :
              Returns([fn |-> "TagBlock::parse", form |-> "block",
                       input |-> Block(pairs, declared, delimited),
                       pairs |-> pairs, declared |-> declared],
                      TagBlock_parse(Block(pairs, declared, delimited)))

\* a call of TagBlock::parse on another input
ParseOther ==
    /\ Idle
    /\ \E input \in OtherBlocks :
          Returns([fn |-> "TagBlock::parse", form |-> "other",
                   input |-> input, pairs |-> <<>>, declared |-> 0],
                  TagBlock_parse(input))

TagBlockNext == ParseBlock \/ ParseOther \/ Forget

TagBlockSpec == Init /\ [][TagBlockNext]_vars

TagBlockParsed == call.fn = "TagBlock::parse"

\* the fields of a tag block that a key sets
TagBlockFields ==
    {"receiver_timestamp", "destination_station", "line_count",
     "relative_time", "source_station", "text"}

\* the positions of the pairs whose key names the field
Occurs(pairs, field) == {i \in 1..Len(pairs) : pairs[i].field = field}

\* the last of a non-empty set of positions
Last(S) == CHOOSE i \in S : \A j \in S : j <= i

\* C21: on a block with a declared two-hex-digit checksum TagBlock::parse
\* returns an error when the XOR of the bytes left of '*' differs from the
\* declared checksum; otherwise it returns a tag block that carries the
\* checksum, in which every field whose key does not occur is absent and
\* every field whose key occurs holds the value of its last pair (when that
\* pair has a value of the field's type); unknown keys raise no error.
TagBlockVerified ==
    (TagBlockParsed /\ call.form = "block") =>
        IF ParityXor(JoinPairs(call.pairs)) # call.declared
        THEN ~ret.ok /\ "err" \in DOMAIN ret
        ELSE /\ ret.ok
             /\ ret.val # None
             /\ ret.val[1].checksum = call.declared
             /\ \A field \in TagBlockFields :
                   LET occurs == Occurs(call.pairs, field)
                   IN IF occurs = {} THEN ret.val[1][field] = None
                      ELSE call.pairs[Last(occurs)].holds # None =>
                              ret.val[1][field] = call.pairs[Last(occurs)].holds

\* C22: TagBlock::parse returns the absent tag block, Ok(None), when the
\* input is empty or holds only the delimiting backslashes.
EmptyTagBlock ==
    (TagBlockParsed /\ \A i \in 1..Len(call.input) : call.input[i] = 92) =>
        ret = Ok(None)

(***************************************************************************)
(* Interrogation (type 15, messages/interrogation.rs).                     *)
(***************************************************************************)
\* interrogation::Message::parse: the slot offset is read when at least 12
\* bits remain, and 0 is no offset
Message_parse(c) ==
    Try(take_bits(6, c), LAMBDA mtype :
        IF remaining_bits(mtype.rest) >= 12
        THEN Try(take_bits(12, mtype.rest), LAMBDA offset :
                 Done(offset.rest,
                      [message_type |-> mtype.val,
                       slot_offset |-> IF offset.val = 0 THEN None
                                       ELSE Some(offset.val)]))
        ELSE Done(mtype.rest,
                  [message_type |-> mtype.val, slot_offset |-> None]))

\* interrogation::Station::parse
Station_parse(c) ==
    Try(take_bits(30, c), LAMBDA mmsi :
    Try(Message_parse(mmsi.rest), LAMBDA message :
        IF remaining_bits(message.rest) >= 8
        THEN Try(take_bits(2, message.rest), LAMBDA spare :
             Try(Message_parse(spare.rest), LAMBDA second :
                 Done(second.rest,
                      [mmsi |-> mmsi.val,
                       messages |->
                           IF \/ second.val.message_type # 0
                              \/ second.val.slot_offset # None
                           THEN <<message.val, second.val>>
                           ELSE <<message.val>>])))
        ELSE Done(message.rest,
                  [mmsi |-> mmsi.val, messages |-> <<message.val>>])))

\* interrogation::parse_message, the closure given to bits()
parse_message(input) ==
    Try(take_bits(6, Cursor(input)), LAMBDA mtype :
    Try(take_bits(2, mtype.rest), LAMBDA repeat_indicator :
    Try(take_bits(30, repeat_indicator.rest), LAMBDA mmsi :
    Try(take_bits(2, mmsi.rest), LAMBDA spare :
    Try(Station_parse(spare.rest), LAMBDA station :
        IF remaining_bits(station.rest) >= 30
        THEN Try(Station_parse(station.rest), LAMBDA second :
             Try(take_bits(2, second.rest), LAMBDA spare2 :
                 Done(spare2.rest,
                      [variant |-> "Interrogation",
                       message_type |-> mtype.val,
                       repeat_indicator |-> repeat_indicator.val,
                       mmsi |-> mmsi.val,
                       stations |-> <<station.val, second.val>>])))
        ELSE Done(Cursor(<<>>),
                  [variant |-> "Interrogation",
                   message_type |-> mtype.val,
                   repeat_indicator |-> repeat_indicator.val,
                   mmsi |-> mmsi.val,
                   stations |-> <<station.val>>]))))))

\* <Interrogation as AisMessageType>::parse
Interrogation_parse(input) ==
    LET r == parse_message(input)
    IN IF r.ok THEN [ok |-> TRUE, val |-> r.val] ELSE Eof

\* the bits of the header in front of the first station: type, repeat
\* indicator, MMSI, spare
HeaderBits == 6 + 2 + 30 + 2

\* the 88 bits of the shortest form: the header, the MMSI of the station,
\* the type and the slot offset of its sub-message
ShortestBits == HeaderBits + 30 + 6 + 12

\* the bytestreams of the tests, unarmored: "?03Owo@nwsI0D00" with fill 2,
\* "?>eq`dAh3`TQP00" with fill 0, "?04759iVhc2lD003000" with fill 2
TestType15 ==
    {unarmor(<<63, 48, 51, 79, 119, 111, 64, 110, 119, 115, 73, 48, 68, 48,
               48>>, 2).val,
     unarmor(<<63, 62, 101, 113, 96, 100, 65, 104, 51, 96, 84, 81, 80, 48,
               48>>, 0).val,
     unarmor(<<63, 48, 52, 55, 53, 57, 105, 86, 104, 99, 50, 108, 68, 48,
               48, 51, 48, 48, 48>>, 2).val}

\* the header of test_type15_short: type 15, repeat 0, MMSI 3669981, spare
Type15Header == <<60, 0, 223, 255, 116>>

\* the lengths, in bytes, of the streams behind the header: from one byte
\* short of the shortest form on
MinTail == (ShortestBits \div 8) - Len(Type15Header) - 1

MaxTail == 17

\* the bytes a stream repeats behind the header
TailBytes == {0, 1, 15, 36, 85, 128, 170, 255}

Type15Streams ==
    {Type15Header \o [i \in 1..n |-> b] :
         n \in MinTail..MaxTail, b \in TailBytes} \cup TestType15

\* a call of Interrogation::parse
ParseInterrogation ==
    /\ Idle
    /\ \E input \in Type15Streams :
          Returns([fn |-> "Interrogation::parse", input |-> input],
                  Interrogation_parse(input))

\* a call of Station::parse at the end of the header
ParseStation ==
    /\ Idle
    /\ \E input \in Type15Streams :
          Returns([fn |-> "Station::parse", input |-> input],
                  Station_parse([buf |-> input, pos |-> HeaderBits]))

InterrogationNext == ParseInterrogation \/ ParseStation \/ Forget

InterrogationSpec == Init /\ [][InterrogationNext]_vars

\* the cursor behind the MMSI and the first sub-message of the first station
FirstSubMessage(input) ==
    Message_parse([buf |-> input, pos |-> HeaderBits + 30]).rest

\* the cursor behind the first station
FirstStation(input) == Station_parse([buf |-> input, pos |-> HeaderBits]).rest

\* after the first sub-message the second is read exactly when at least 8
\* bits remain
SecondSubMessage ==
    (call.fn = "Station::parse" /\ ret.ok) =>
        IF remaining_bits(FirstSubMessage(call.input)) >= 8
        THEN ret.rest.pos >= FirstSubMessage(call.input).pos + 8
        ELSE ret.rest = FirstSubMessage(call.input)
             /\ Len(ret.val.messages) = 1

\* a second station is read exactly when at least 30 bits remain after the
\* first
SecondStation ==
    (call.fn = "Interrogation::parse" /\ ret.ok) =>
        (Len(ret.val.stations) = 2
            <=> remaining_bits(FirstStation(call.input)) >= 30)

\* a stream of at least 88 bits gives a record
ShortestFormSuffices ==
    (call.fn = "Interrogation::parse"
        /\ 8 * Len(call.input) >= ShortestBits) => ret.ok

\* C29: in a type-15 message the second sub-message of a station is read
\* exactly when at least 8 bits remain after the first, a second station is
\* read exactly when at least 30 bits remain after the first station, and
\* every stream of at least 88 bits gives a record, never the
\* unexpected-end error.
InterrogationThresholds ==
    /\ SecondSubMessage
    /\ SecondStation
    /\ ShortestFormSuffices

====
